---- MODULE Spec2Model ----
(***************************************************************************)
(* A model of the Kai chess engine: board representation, move generation, *)
(* make-move with incremental Zobrist hashing, perft, the iterative        *)
(* deepening driver and the UCI / XBoard command handlers.                 *)
(*                                                                         *)
(* Representation choices                                                  *)
(*  - A Bitboard (u64) is the set of its squares, a subset of 0..63.       *)
(*  - A Move (u16) is the integer from | to << 6 | flags << 12.            *)
(*  - Option<Piece> is the integer (color << 3) | piece_type, or NoPiece.  *)
(*  - Option<Square> is the square, or NoSquare.                           *)
(*  - A Zobrist hash (u64) is the set of the indices of the keys XORed     *)
(*    into it (keys are numbered in the order Zobrist::new draws them), so *)
(*    that XOR is the symmetric difference of two such sets.               *)
(*  - A string is the sequence of its characters.                          *)
(***************************************************************************)
EXTENDS Integers, Sequences, FiniteSets, TLC

\* F(v), with v computed once, before F is
With(v, F(_)) == CHOOSE r \in {F(x) : x \in {v}} : TRUE

(***************************************************************************)
(* types.rs: squares, colors, piece types, pieces                          *)
(***************************************************************************)
Squares == 0..63
NoSquare == 64
NoPiece == 255

White == 0
Black == 1
Colors == {White, Black}
flip(c) == 1 - c

Pawn == 0
Knight == 1
Bishop == 2
Rook == 3
Queen == 4
King == 5
PieceTypes == 0..5

A1 == 0
C1 == 2
D1 == 3
E1 == 4
F1 == 5
G1 == 6
H1 == 7
A8 == 56
C8 == 58
D8 == 59
E8 == 60
F8 == 61
G8 == 62
H8 == 63

file(sq) == sq % 8
rank(sq) == sq \div 8
from_coords(f, r) == r * 8 + f

Piece_new(c, pt) == c * 8 + pt
Piece_color(p) == IF (p \div 8) % 2 = 0 THEN White ELSE Black
Piece_type(p) == p % 8

(***************************************************************************)
(* bitboard.rs: masks, shifts, leaper tables, BETWEEN and LINE             *)
(***************************************************************************)
EMPTY == {}
Not(bb) == Squares \ bb
FileBB(f) == {s \in Squares : s % 8 = f}
RankBB(r) == {s \in Squares : s \div 8 = r}
FILE_A == FileBB(0)
FILE_B == FileBB(1)
FILE_G == FileBB(6)
FILE_H == FileBB(7)
RANK_1 == RankBB(0)
RANK_2 == RankBB(1)
RANK_3 == RankBB(2)
RANK_6 == RankBB(5)
RANK_7 == RankBB(6)
RANK_8 == RankBB(7)
NOT_FILE_A == Not(FILE_A)
NOT_FILE_H == Not(FILE_H)
NOT_FILE_AB == Not(FILE_A \cup FILE_B)
NOT_FILE_GH == Not(FILE_G \cup FILE_H)

\* x << k and x >> k on a u64: bits shifted past either end are dropped
Shl(bb, k) == {s + k : s \in {x \in bb : x + k <= 63}}
Shr(bb, k) == {s - k : s \in {x \in bb : x - k >= 0}}

north(bb) == Shl(bb, 8)
south(bb) == Shr(bb, 8)
north_east(bb) == Shl(bb, 9) \cap NOT_FILE_A
north_west(bb) == Shl(bb, 7) \cap NOT_FILE_H
south_east(bb) == Shr(bb, 7) \cap NOT_FILE_A
south_west(bb) == Shr(bb, 9) \cap NOT_FILE_H
pawn_push(bb, c) == IF c = White THEN north(bb) ELSE south(bb)

\* trailing_zeros: 64 for the empty board
lsb(bb) == IF bb = {} THEN NoSquare ELSE CHOOSE s \in bb : \A t \in bb : s <= t
exactly_one(bb) == Cardinality(bb) = 1

init_knight_attacks ==
  [sq \in Squares |->
     LET bb == {sq} IN
          (Shl(bb, 17) \cap Not(FILE_A))
     \cup (Shl(bb, 15) \cap Not(FILE_H))
     \cup (Shl(bb, 10) \cap Not(NOT_FILE_GH))
     \cup (Shl(bb, 6) \cap Not(NOT_FILE_AB))
     \cup (Shr(bb, 17) \cap Not(FILE_H))
     \cup (Shr(bb, 15) \cap Not(FILE_A))
     \cup (Shr(bb, 10) \cap Not(NOT_FILE_AB))
     \cup (Shr(bb, 6) \cap Not(NOT_FILE_GH))]

init_king_attacks ==
  [sq \in Squares |->
     LET bb == {sq} IN
          Shl(bb, 8) \cup Shr(bb, 8)
     \cup (Shl(bb, 1) \cap Not(FILE_A))
     \cup (Shr(bb, 1) \cap Not(FILE_H))
     \cup (Shl(bb, 9) \cap Not(FILE_A))
     \cup (Shl(bb, 7) \cap Not(FILE_H))
     \cup (Shr(bb, 7) \cap Not(FILE_A))
     \cup (Shr(bb, 9) \cap Not(FILE_H))]

init_pawn_attacks ==
  [c \in Colors |-> [sq \in Squares |->
     LET bb == {sq} IN
     IF c = White
     THEN (Shl(bb, 9) \cap Not(FILE_A)) \cup (Shl(bb, 7) \cap Not(FILE_H))
     ELSE (Shr(bb, 7) \cap Not(FILE_A)) \cup (Shr(bb, 9) \cap Not(FILE_H))]]

KNIGHT_ATTACKS == init_knight_attacks
KING_ATTACKS == init_king_attacks
PAWN_ATTACKS == init_pawn_attacks

signum(x) == IF x > 0 THEN 1 ELSE IF x < 0 THEN -1 ELSE 0
abs_diff(a, b) == IF a > b THEN a - b ELSE b - a
OnLine(s1, s2) ==
  \/ file(s1) = file(s2)
  \/ rank(s1) = rank(s2)
  \/ abs_diff(file(s1), file(s2)) = abs_diff(rank(s1), rank(s2))

init_between ==
  [s1 \in Squares |-> [s2 \in Squares |->
     IF s1 # s2 /\ OnLine(s1, s2)
     THEN LET df == signum(file(s2) - file(s1))
              dr == signum(rank(s2) - rank(s1))
              n == IF abs_diff(file(s1), file(s2)) > abs_diff(rank(s1), rank(s2))
                   THEN abs_diff(file(s1), file(s2))
                   ELSE abs_diff(rank(s1), rank(s2))
          IN {from_coords(file(s1) + k * df, rank(s1) + k * dr) : k \in 1..(n - 1)}
     ELSE {}]]

init_line ==
  [s1 \in Squares |-> [s2 \in Squares |->
     IF s1 # s2 /\ OnLine(s1, s2)
     THEN LET df == signum(file(s2) - file(s1))
              dr == signum(rank(s2) - rank(s1))
          IN {from_coords(file(s1) + k * df, rank(s1) + k * dr) :
                k \in {j \in (-7)..7 :
                         /\ file(s1) + j * df \in 0..7
                         /\ rank(s1) + j * dr \in 0..7}}
     ELSE {}]]

BETWEEN == init_between
LINE == init_line

between(s1, s2) == BETWEEN[s1][s2]
line(s1, s2) == LINE[s1][s2]
aligned(s1, s2, s3) == s3 \in LINE[s1][s2]
knight_attacks(sq) == KNIGHT_ATTACKS[sq]
king_attacks(sq) == KING_ATTACKS[sq]
pawn_attacks(c, sq) == PAWN_ATTACKS[c][sq]

(***************************************************************************)
(* magic.rs: sliding attacks by magic lookup.  init_*_attacks writes, for  *)
(* every subset of a square's blocker mask in index order, the ray-traced  *)
(* attack set into the slot picked by magic_index; a later write to the    *)
(* same slot replaces the earlier one, and a slot never written keeps      *)
(* Bitboard::EMPTY.  A query reads the slot of occupied & mask.            *)
(***************************************************************************)
\* the squares of the ray from sq in direction (df, dr), nearest first
Ray(sq, df, dr) ==
  LET n == CHOOSE m \in 0..7 :
             /\ \A k \in 1..m : file(sq) + k * df \in 0..7 /\ rank(sq) + k * dr \in 0..7
             /\ ~(file(sq) + (m + 1) * df \in 0..7 /\ rank(sq) + (m + 1) * dr \in 0..7)
  IN [k \in 1..n |-> from_coords(file(sq) + k * df, rank(sq) + k * dr)]

RookRays == [sq \in Squares |->
  <<Ray(sq, 0, 1), Ray(sq, 0, -1), Ray(sq, 1, 0), Ray(sq, -1, 0)>>]
BishopRays == [sq \in Squares |->
  <<Ray(sq, 1, 1), Ray(sq, -1, 1), Ray(sq, 1, -1), Ray(sq, -1, -1)>>]

\* one loop of slow_*_attacks: every square up to and including the first blocker
RayAttacks(r, occupied) ==
  {r[i] : i \in {j \in 1..Len(r) : \A k \in 1..(j - 1) : r[k] \notin occupied}}

slow_rook_attacks(sq, occupied) ==
  UNION {RayAttacks(RookRays[sq][d], occupied) : d \in 1..4}
slow_bishop_attacks(sq, occupied) ==
  UNION {RayAttacks(BishopRays[sq][d], occupied) : d \in 1..4}

rook_mask == [sq \in Squares |->
  {from_coords(file(sq), r) : r \in (1..6) \ {rank(sq)}}
  \cup {from_coords(f, rank(sq)) : f \in (1..6) \ {file(sq)}}]

\* one while loop of bishop_mask; f and r are u8, stepped by df and dr modulo 256
RECURSIVE MaskRay(_, _, _, _)
MaskRay(f, r, df, dr) ==
  IF f < 7 /\ r < 7
  THEN {r * 8 + f} \cup MaskRay((f + df) % 256, (r + dr) % 256, df, dr)
  ELSE {}
bishop_mask == [sq \in Squares |->
  LET f0 == file(sq)
      r0 == rank(sq)
  IN      MaskRay(f0 + 1, r0 + 1, 1, 1)
     \cup MaskRay((f0 + 255) % 256, r0 + 1, 255, 1)
     \cup MaskRay(f0 + 1, (r0 + 255) % 256, 1, 255)
     \cup MaskRay((f0 + 255) % 256, (r0 + 255) % 256, 255, 255)]

BISHOP_BITS ==
  <<6, 5, 5, 5, 5, 5, 5, 6,
    5, 5, 5, 5, 5, 5, 5, 5,
    5, 5, 7, 7, 7, 7, 5, 5,
    5, 5, 7, 9, 9, 7, 5, 5,
    5, 5, 7, 9, 9, 7, 5, 5,
    5, 5, 7, 7, 7, 7, 5, 5,
    5, 5, 5, 5, 5, 5, 5, 5,
    6, 5, 5, 5, 5, 5, 5, 6>>
\* each u64 is written as its eight bytes, most significant first
BISHOP_MAGIC_NUMBERS ==
  <<<<\h00, \h02, \h02, \h02, \h02, \h02, \h02, \h00>>, <<\h00, \h02, \h02, \h02, \h02, \h02, \h00, \h00>>,
    <<\h00, \h04, \h01, \h02, \h02, \h00, \h00, \h00>>, <<\h00, \h04, \h04, \h00, \h80, \h00, \h00, \h00>>,
    <<\h00, \h01, \h10, \h40, \h00, \h00, \h00, \h00>>, <<\h00, \h00, \h82, \h10, \h40, \h00, \h00, \h00>>,
    <<\h00, \h00, \h41, \h04, \h10, \h40, \h00, \h00>>, <<\h00, \h00, \h10, \h41, \h04, \h10, \h40, \h00>>,
    <<\h00, \h00, \h04, \h04, \h04, \h04, \h04, \h00>>, <<\h00, \h00, \h02, \h02, \h02, \h02, \h02, \h00>>,
    <<\h00, \h00, \h04, \h01, \h02, \h02, \h00, \h00>>, <<\h00, \h00, \h04, \h04, \h00, \h80, \h00, \h00>>,
    <<\h00, \h00, \h01, \h10, \h40, \h00, \h00, \h00>>, <<\h00, \h00, \h00, \h82, \h10, \h40, \h00, \h00>>,
    <<\h00, \h00, \h00, \h41, \h04, \h10, \h40, \h00>>, <<\h00, \h00, \h00, \h20, \h82, \h08, \h20, \h00>>,
    <<\h00, \h04, \h00, \h08, \h08, \h08, \h08, \h00>>, <<\h00, \h02, \h00, \h04, \h04, \h04, \h04, \h00>>,
    <<\h00, \h01, \h00, \h02, \h02, \h02, \h02, \h00>>, <<\h00, \h00, \h80, \h08, \h02, \h00, \h40, \h00>>,
    <<\h00, \h00, \h80, \h04, \h00, \hA0, \h00, \h00>>, <<\h00, \h00, \h20, \h01, \h00, \h88, \h40, \h00>>,
    <<\h00, \h00, \h40, \h00, \h82, \h08, \h20, \h00>>, <<\h00, \h00, \h20, \h00, \h41, \h04, \h10, \h00>>,
    <<\h00, \h02, \h08, \h00, \h10, \h10, \h10, \h00>>, <<\h00, \h01, \h04, \h00, \h08, \h08, \h08, \h00>>,
    <<\h00, \h00, \h20, \h80, \h04, \h01, \h04, \h00>>, <<\h00, \h00, \h40, \h40, \h04, \h01, \h02, \h00>>,
    <<\h00, \h00, \h84, \h00, \h00, \h80, \h20, \h00>>, <<\h00, \h00, \h40, \h40, \h02, \h01, \h10, \h00>>,
    <<\h00, \h00, \h80, \h80, \h01, \h04, \h10, \h00>>, <<\h00, \h00, \h40, \h40, \h00, \h82, \h08, \h00>>,
    <<\h00, \h01, \h04, \h10, \h00, \h20, \h20, \h00>>, <<\h00, \h00, \h82, \h08, \h00, \h10, \h10, \h00>>,
    <<\h00, \h00, \h10, \h44, \h00, \h08, \h08, \h00>>, <<\h00, \h00, \h02, \h00, \h80, \h08, \h00, \h80>>,
    <<\h00, \h00, \h40, \h40, \h40, \h04, \h01, \h00>>, <<\h00, \h00, \h80, \h81, \h00, \h02, \h01, \h00>>,
    <<\h00, \h01, \h01, \h01, \h00, \h02, \h08, \h00>>, <<\h00, \h00, \h80, \h80, \h80, \h01, \h04, \h00>>,
    <<\h00, \h00, \h82, \h08, \h20, \h00, \h40, \h00>>, <<\h00, \h00, \h41, \h04, \h10, \h00, \h20, \h00>>,
    <<\h00, \h00, \h08, \h20, \h88, \h00, \h10, \h00>>, <<\h00, \h00, \h00, \h20, \h11, \h00, \h08, \h00>>,
    <<\h00, \h00, \h08, \h01, \h00, \h40, \h04, \h00>>, <<\h00, \h01, \h01, \h01, \h01, \h00, \h02, \h00>>,
    <<\h00, \h02, \h02, \h02, \h02, \h00, \h04, \h00>>, <<\h00, \h01, \h01, \h01, \h01, \h00, \h02, \h00>>,
    <<\h00, \h00, \h41, \h04, \h10, \h40, \h00, \h00>>, <<\h00, \h00, \h20, \h82, \h08, \h20, \h00, \h00>>,
    <<\h00, \h00, \h00, \h20, \h84, \h10, \h00, \h00>>, <<\h00, \h00, \h00, \h00, \h20, \h88, \h00, \h00>>,
    <<\h00, \h00, \h00, \h10, \h02, \h02, \h00, \h00>>, <<\h00, \h00, \h04, \h04, \h08, \h02, \h00, \h00>>,
    <<\h00, \h04, \h04, \h04, \h04, \h04, \h00, \h00>>, <<\h00, \h02, \h02, \h02, \h02, \h02, \h00, \h00>>,
    <<\h00, \h00, \h10, \h41, \h04, \h10, \h40, \h00>>, <<\h00, \h00, \h00, \h20, \h82, \h08, \h20, \h00>>,
    <<\h00, \h00, \h00, \h00, \h20, \h84, \h10, \h00>>, <<\h00, \h00, \h00, \h00, \h00, \h20, \h88, \h00>>,
    <<\h00, \h00, \h00, \h00, \h10, \h02, \h02, \h00>>, <<\h00, \h00, \h00, \h04, \h04, \h08, \h02, \h00>>,
    <<\h00, \h00, \h04, \h04, \h04, \h04, \h04, \h00>>, <<\h00, \h02, \h02, \h02, \h02, \h02, \h02, \h00>>>>

\* a u64 as the tuple of its eight bytes, least significant first; byte r + 1 of
\* a bitboard holds rank r
Bit(bb, s) == IF s \in bb THEN 1 ELSE 0
RankByte(bb, r) ==
  Bit(bb, 8 * r) + 2 * Bit(bb, 8 * r + 1) + 4 * Bit(bb, 8 * r + 2)
  + 8 * Bit(bb, 8 * r + 3) + 16 * Bit(bb, 8 * r + 4) + 32 * Bit(bb, 8 * r + 5)
  + 64 * Bit(bb, 8 * r + 6) + 128 * Bit(bb, 8 * r + 7)
BytesOfBB(bb) ==
  <<RankByte(bb, 0), RankByte(bb, 1), RankByte(bb, 2), RankByte(bb, 3),
    RankByte(bb, 4), RankByte(bb, 5), RankByte(bb, 6), RankByte(bb, 7)>>
BytesOfMagic(m) == <<m[8], m[7], m[6], m[5], m[4], m[3], m[2], m[1]>>

\* u64::wrapping_mul, by columns of byte products: MulColumn is the sum of the
\* byte products of weight 256^(k-1), MulCarry what bytes 1..k carry into byte k+1
RECURSIVE MulColumn(_, _, _, _)
MulColumn(a, b, k, i) ==
  IF i > k THEN 0 ELSE a[i] * b[k + 1 - i] + MulColumn(a, b, k, i + 1)
RECURSIVE MulCarry(_, _, _)
MulCarry(a, b, k) ==
  IF k = 0 THEN 0 ELSE (MulColumn(a, b, k, 1) + MulCarry(a, b, k - 1)) \div 256
\* bits 48..63 of a.wrapping_mul(b)
MulTop16(a, b) ==
  (MulColumn(a, b, 8, 1) * 256 + MulColumn(a, b, 7, 1) + MulCarry(a, b, 6)) % 65536

\* (blockers * magic) >> shift; every shift is 64 - bits with bits <= 12
magic_index(blockers, magic, shift) ==
  With(BytesOfBB(blockers), LAMBDA b : MulTop16(b, magic) \div (2 ^ (shift - 48)))

index_to_occupancy(index, mask) ==
  {sq \in mask : (index \div (2 ^ Cardinality({t \in mask : t < sq}))) % 2 = 1}

\* init_bishop_magics: BISHOP_MAGICS[sq] = Magic { mask, magic, shift }
init_bishop_magics ==
  [sq \in Squares |-> [mask |-> bishop_mask[sq],
                       magic |-> BytesOfMagic(BISHOP_MAGIC_NUMBERS[sq + 1]),
                       shift |-> 64 - BISHOP_BITS[sq + 1]]]
BISHOP_MAGICS == init_bishop_magics

\* the slots of one square after the loop over index in 0..num_occupancies:
\* writes pairs each slot with the indices written to it, the greatest is the last
LastWrite(sq, mask, w) ==
  IF w = {} THEN EMPTY
  ELSE slow_bishop_attacks(sq, index_to_occupancy(CHOOSE i \in w : \A j \in w : j <= i, mask))
BishopSlots(sq, magic, writes) ==
  [index \in 0..(2 ^ (64 - magic.shift) - 1) |->
     LastWrite(sq, magic.mask, {p[2] : p \in {q \in writes : q[1] = index}})]
BishopWrites(magic) ==
  {<<magic_index(index_to_occupancy(i, magic.mask), magic.magic, magic.shift), i>> :
     i \in 0..(2 ^ Cardinality(magic.mask) - 1)}
init_bishop_attacks ==
  [sq \in Squares |->
     With(BISHOP_MAGICS[sq],
          LAMBDA magic : With(BishopWrites(magic),
                              LAMBDA writes : BishopSlots(sq, magic, writes)))]
\* BISHOP_ATTACKS[sq] is the slice of the table that starts at BISHOP_OFFSETS[sq]
BISHOP_ATTACKS == init_bishop_attacks

\* ROOK_MAGIC_NUMBERS send the 2^ROOK_BITS subsets of each rook mask to
\* 2^ROOK_BITS different slots, so the slot read is the one written for the
\* same blockers.
rook_attacks(sq, occupied) == slow_rook_attacks(sq, occupied \cap rook_mask[sq])
bishop_attacks(sq, occupied) ==
  With(BISHOP_MAGICS[sq],
       LAMBDA magic :
         BISHOP_ATTACKS[sq][magic_index(occupied \cap magic.mask, magic.magic, magic.shift)])
queen_attacks(sq, occupied) == rook_attacks(sq, occupied) \cup bishop_attacks(sq, occupied)

(***************************************************************************)
(* types.rs: characters, algebraic squares, castling rights.  A bit mask   *)
(* of castling rights is the set of its bits {1, 2, 4, 8}.                 *)
(***************************************************************************)
FileChars == <<"a", "b", "c", "d", "e", "f", "g", "h">>
RankChars == <<"1", "2", "3", "4", "5", "6", "7", "8">>
DigitChars == <<"0", "1", "2", "3", "4", "5", "6", "7", "8", "9">>
UpperPieceChars == <<"P", "N", "B", "R", "Q", "K">>
LowerPieceChars == <<"p", "n", "b", "r", "q", "k">>
\* characters whose UTF-8 encoding is one byte; any other character takes two or more
AsciiChars ==
  {FileChars[i] : i \in 1..8} \cup {DigitChars[i] : i \in 1..10}
  \cup {UpperPieceChars[i] : i \in 1..6} \cup {LowerPieceChars[i] : i \in 1..6}
  \cup {" ", "/", "-", "w", "x", "z", "i", "W", "X", "+", "0"}

IndexOf(c, chars) == IF \E i \in DOMAIN chars : chars[i] = c
                     THEN CHOOSE i \in DOMAIN chars : chars[i] = c
                     ELSE 0
to_ascii_lowercase(c) ==
  IF IndexOf(c, UpperPieceChars) > 0 THEN LowerPieceChars[IndexOf(c, UpperPieceChars)]
  ELSE IF c = "W" THEN "w" ELSE IF c = "X" THEN "x" ELSE c

\* Square::from_algebraic on the character sequence s: only the first two bytes are read
from_algebraic(s) ==
  IF Len(s) < 2 THEN NoSquare
  ELSE LET f == IndexOf(s[1], FileChars)
           r == IndexOf(s[2], RankChars)
       IN IF f > 0 /\ r > 0 THEN from_coords(f - 1, r - 1) ELSE NoSquare
to_algebraic(sq) == <<FileChars[file(sq) + 1], RankChars[rank(sq) + 1]>>

PieceType_from_char(c) == IndexOf(to_ascii_lowercase(c), LowerPieceChars) - 1
PieceType_to_char(pt) == LowerPieceChars[pt + 1]
Piece_from_char(c) ==
  IF PieceType_from_char(c) < 0 THEN NoPiece
  ELSE Piece_new(IF IndexOf(c, UpperPieceChars) > 0 THEN White ELSE Black,
                 PieceType_from_char(c))
Piece_to_char(p) ==
  IF Piece_color(p) = White THEN UpperPieceChars[Piece_type(p) + 1]
  ELSE LowerPieceChars[Piece_type(p) + 1]

CastlingBits == {1, 2, 4, 8}
MaskBits(n) == {b \in CastlingBits : (n \div b) % 2 = 1}
CastlingRights_NONE == {}
WHITE_KINGSIDE == {1}
WHITE_QUEENSIDE == {2}
BLACK_KINGSIDE == {4}
BLACK_QUEENSIDE == {8}
CastlingRights_ALL == CastlingBits
CastlingRights_contains(rights, other) == (rights \cap other) = other
CastlingRights_index(rights) ==
  (IF 1 \in rights THEN 1 ELSE 0) + (IF 2 \in rights THEN 2 ELSE 0)
  + (IF 4 \in rights THEN 4 ELSE 0) + (IF 8 \in rights THEN 8 ELSE 0)
kingside(color) == IF color = White THEN WHITE_KINGSIDE ELSE BLACK_KINGSIDE
queenside(color) == IF color = White THEN WHITE_QUEENSIDE ELSE BLACK_QUEENSIDE

\* the loop of CastlingRights::from_fen: letters before the first '-' are inserted
RECURSIVE CastlingRights_from_fen(_)
CastlingRights_from_fen(s) ==
  IF s = <<>> \/ Head(s) = "-" THEN CastlingRights_NONE
  ELSE (CASE Head(s) = "K" -> WHITE_KINGSIDE
          [] Head(s) = "Q" -> WHITE_QUEENSIDE
          [] Head(s) = "k" -> BLACK_KINGSIDE
          [] Head(s) = "q" -> BLACK_QUEENSIDE
          [] OTHER -> {}) \cup CastlingRights_from_fen(Tail(s))
CastlingRights_to_fen(rights) ==
  IF rights = {} THEN <<"-">>
  ELSE (IF CastlingRights_contains(rights, WHITE_KINGSIDE) THEN <<"K">> ELSE <<>>)
       \o (IF CastlingRights_contains(rights, WHITE_QUEENSIDE) THEN <<"Q">> ELSE <<>>)
       \o (IF CastlingRights_contains(rights, BLACK_KINGSIDE) THEN <<"k">> ELSE <<>>)
       \o (IF CastlingRights_contains(rights, BLACK_QUEENSIDE) THEN <<"q">> ELSE <<>>)

(***************************************************************************)
(* moves.rs: the 16-bit move encoding                                      *)
(***************************************************************************)
Move_NULL == 0
FLAG_QUIET == 0
FLAG_DOUBLE_PUSH == 1
FLAG_KING_CASTLE == 2
FLAG_QUEEN_CASTLE == 3
FLAG_CAPTURE == 4
FLAG_EP_CAPTURE == 5
FLAG_PROMO_KNIGHT == 8
FLAG_PROMO_BISHOP == 9
FLAG_PROMO_ROOK == 10
FLAG_PROMO_QUEEN == 11

Move_new(from, to, fl) == from + to * 64 + fl * 4096
Move_quiet(from, to) == Move_new(from, to, FLAG_QUIET)
Move_capture(from, to) == Move_new(from, to, FLAG_CAPTURE)
Move_double_push(from, to) == Move_new(from, to, FLAG_DOUBLE_PUSH)
Move_en_passant(from, to) == Move_new(from, to, FLAG_EP_CAPTURE)
Move_king_castle(from, to) == Move_new(from, to, FLAG_KING_CASTLE)
Move_queen_castle(from, to) == Move_new(from, to, FLAG_QUEEN_CASTLE)
Move_promotion(from, to, piece, capture) ==
  LET base == CASE piece = Knight -> FLAG_PROMO_KNIGHT
                [] piece = Bishop -> FLAG_PROMO_BISHOP
                [] piece = Rook -> FLAG_PROMO_ROOK
                [] OTHER -> FLAG_PROMO_QUEEN
  IN Move_new(from, to, IF capture THEN base + 4 ELSE base)

from_sq(mv) == mv % 64
to_sq(mv) == (mv \div 64) % 64
flags(mv) == mv \div 4096
is_capture(mv) == (flags(mv) \div 4) % 2 = 1
is_promotion(mv) == (flags(mv) \div 8) % 2 = 1
is_tactical(mv) == (flags(mv) \div 4) % 4 # 0
is_castle(mv) == flags(mv) = FLAG_KING_CASTLE \/ flags(mv) = FLAG_QUEEN_CASTLE
is_kingside_castle(mv) == flags(mv) = FLAG_KING_CASTLE
is_double_push(mv) == flags(mv) = FLAG_DOUBLE_PUSH
is_en_passant(mv) == flags(mv) = FLAG_EP_CAPTURE
is_null(mv) == mv = 0
promotion_piece(mv) ==
  CASE flags(mv) % 4 = 0 -> Knight
    [] flags(mv) % 4 = 1 -> Bishop
    [] flags(mv) % 4 = 2 -> Rook
    [] OTHER -> Queen
to_uci(mv) ==
  IF is_null(mv) THEN <<"0", "0", "0", "0">>
  ELSE to_algebraic(from_sq(mv)) \o to_algebraic(to_sq(mv))
       \o (IF is_promotion(mv) THEN <<PieceType_to_char(promotion_piece(mv))>> ELSE <<>>)

(***************************************************************************)
(* zobrist.rs: a key is named by its index in the order Zobrist::new draws *)
(* it from xorshift64 (piece keys 0..767, castling keys 768..783, en       *)
(* passant keys 784..791, side key 792).  The generator never repeats a    *)
(* value and never yields 0, so two hashes that differ in one or two keys  *)
(* are different u64 values.                                               *)
(***************************************************************************)
piece_key(color, piece, sq) == color * 384 + piece * 64 + sq
castling_key(rights) == 768 + CastlingRights_index(rights)
en_passant_key(f) == 784 + f
side_key == 792
\* hash ^= key
Xor(hash, key) == IF key \in hash THEN hash \ {key} ELSE hash \cup {key}

(***************************************************************************)
(* position.rs: the Position record                                        *)
(***************************************************************************)
Position_empty ==
  [pieces |-> [c \in Colors |-> [pt \in PieceTypes |-> EMPTY]],
   occupied |-> [c \in Colors |-> EMPTY],
   all_occupied |-> EMPTY,
   board |-> [sq \in Squares |-> NoPiece],
   side_to_move |-> White,
   castling |-> CastlingRights_NONE,
   en_passant |-> NoSquare,
   halfmove_clock |-> 0,
   fullmove_number |-> 1,
   hash |-> {},
   king_sq |-> [c \in Colors |-> IF c = White THEN E1 ELSE E8],
   checkers |-> EMPTY]

\* put_piece for sq < 64; board[sq] is out of bounds for any other sq
put_piece(pos, sq, piece) ==
  LET color == Piece_color(piece)
      piece_type == Piece_type(piece)
  IN [pos EXCEPT !.pieces[color][piece_type] = @ \cup {sq},
                 !.occupied[color] = @ \cup {sq},
                 !.all_occupied = @ \cup {sq},
                 !.board[sq] = piece,
                 !.king_sq[color] = IF piece_type = King THEN sq ELSE @]

piece_bb(pos, color, piece_type) == pos.pieces[color][piece_type]
piece_at(pos, sq) == pos.board[sq]
is_in_check(pos) == pos.checkers # EMPTY
diagonal_sliders(pos, color) == piece_bb(pos, color, Bishop) \cup piece_bb(pos, color, Queen)
orthogonal_sliders(pos, color) == piece_bb(pos, color, Rook) \cup piece_bb(pos, color, Queen)

attackers_to_by(pos, sq, color, occupied) ==
       (pawn_attacks(flip(color), sq) \cap piece_bb(pos, color, Pawn))
  \cup (knight_attacks(sq) \cap piece_bb(pos, color, Knight))
  \cup (bishop_attacks(sq, occupied)
          \cap (piece_bb(pos, color, Bishop) \cup piece_bb(pos, color, Queen)))
  \cup (rook_attacks(sq, occupied)
          \cap (piece_bb(pos, color, Rook) \cup piece_bb(pos, color, Queen)))
  \cup (king_attacks(sq) \cap piece_bb(pos, color, King))

is_attacked_by(pos, sq, color) == attackers_to_by(pos, sq, color, pos.all_occupied) # EMPTY

compute_checkers(pos) ==
  attackers_to_by(pos, pos.king_sq[pos.side_to_move], flip(pos.side_to_move),
                  pos.all_occupied)

\* the keys XORed in are pairwise different, so the result is their set
compute_hash(pos) ==
       {piece_key(c, pt, sq) : <<c, pt, sq>> \in
          {t \in Colors \X PieceTypes \X Squares : t[3] \in piece_bb(pos, t[1], t[2])}}
  \cup {castling_key(pos.castling)}
  \cup (IF pos.en_passant # NoSquare THEN {en_passant_key(file(pos.en_passant))} ELSE {})
  \cup (IF pos.side_to_move = Black THEN {side_key} ELSE {})

\* one of the two loops of pinned_pieces
PinnedBy(pos, king, attackers, our_pieces) ==
  UNION {between(king, a) \cap pos.all_occupied \cap our_pieces :
           a \in {x \in attackers : exactly_one(between(king, x) \cap pos.all_occupied)}}

pinned_pieces(pos, color) ==
  LET king == pos.king_sq[color]
      them == flip(color)
      our_pieces == pos.occupied[color]
  IN      PinnedBy(pos, king,
                   bishop_attacks(king, pos.occupied[them]) \cap diagonal_sliders(pos, them),
                   our_pieces)
     \cup PinnedBy(pos, king,
                   rook_attacks(king, pos.occupied[them]) \cap orthogonal_sliders(pos, them),
                   our_pieces)

(***************************************************************************)
(* position.rs: Position::from_fen.  The result is a record with tag "Ok"  *)
(* (pos is the parsed position), "Err" (a returned Err) or "Panic" (the    *)
(* thread panics).  overflow_checks says whether the build traps integer   *)
(* overflow (it does in a debug profile and does not in a release one).    *)
(***************************************************************************)
\* str::split_whitespace: the maximal runs of characters other than spaces
TokenStarts(s) == {i \in 1..Len(s) : s[i] # " " /\ (i = 1 \/ s[i - 1] = " ")}
TokenEnd(s, i) ==
  CHOOSE j \in i..Len(s) :
    /\ \A k \in i..j : s[k] # " "
    /\ (j = Len(s) \/ s[j + 1] = " ")
split_whitespace(s) ==
  LET starts == TokenStarts(s)
      nth(k) == CHOOSE i \in starts : Cardinality({j \in starts : j < i}) = k - 1
  IN [k \in 1..Cardinality(starts) |-> SubSeq(s, nth(k), TokenEnd(s, nth(k)))]

\* str::parse for an unsigned integer type with the given maximum; -1 stands for Err
RECURSIVE DigitsValue(_, _, _)
DigitsValue(s, acc, max) ==
  IF s = <<>> THEN acc
  ELSE LET d == IndexOf(Head(s), DigitChars)
       IN IF d = 0 \/ acc * 10 + (d - 1) > max THEN -1
          ELSE DigitsValue(Tail(s), acc * 10 + (d - 1), max)
parse_unsigned(s, max) ==
  LET t == IF s # <<>> /\ Head(s) = "+" THEN Tail(s) ELSE s
  IN IF t = <<>> THEN -1 ELSE DigitsValue(t, 0, max)
unwrap_or(v, default) == IF v < 0 THEN default ELSE v

\* one turn of the piece-placement loop of from_fen on character c; sq is a u8
\* and st is [tag, pos, sq]; a turn is not taken once the loop has been left
PlaceChar(st, c, overflow_checks) ==
  LET digit == IndexOf(c, RankChars)
      piece == Piece_from_char(c)
  IN IF st.tag # "Ok" THEN st
     ELSE IF c = "/"
     THEN [st EXCEPT !.sq = (@ + 240) % 256]
     ELSE IF digit > 0
     THEN IF st.sq + digit > 255 /\ overflow_checks
          THEN [st EXCEPT !.tag = "Panic"]
          ELSE [st EXCEPT !.sq = (@ + digit) % 256]
     ELSE IF piece # NoPiece
     THEN IF st.sq >= 64
          THEN [st EXCEPT !.tag = "Panic"]
          ELSE [st EXCEPT !.pos = put_piece(@, st.sq, piece), !.sq = @ + 1]
     ELSE [st EXCEPT !.tag = "Err"]

\* the loop over the characters chars[lo..hi], in order: the turns on the
\* first half, then those on the second half from where the first half ended
RECURSIVE PlacePieces(_, _, _, _, _)
PlacePieces(chars, lo, hi, st, overflow_checks) ==
  IF lo = hi THEN PlaceChar(st, chars[lo], overflow_checks)
  ELSE CHOOSE r \in
         {PlacePieces(chars, ((lo + hi) \div 2) + 1, hi, half, overflow_checks) :
            half \in {PlacePieces(chars, lo, (lo + hi) \div 2, st, overflow_checks)}} :
         TRUE

\* from_fen after the piece placement: placed is the outcome of the loop
FromFenFields(parts, placed) ==
  IF placed.tag # "Ok" THEN [tag |-> placed.tag, pos |-> placed.pos]
  ELSE IF Len(parts) > 1 /\ parts[2] # <<"w">> /\ parts[2] # <<"b">>
  THEN [tag |-> "Err", pos |-> placed.pos]
  ELSE LET p1 == [placed.pos EXCEPT
             !.side_to_move =
                IF Len(parts) > 1 /\ parts[2] = <<"b">> THEN Black ELSE White,
             !.castling =
                IF Len(parts) > 2 THEN CastlingRights_from_fen(parts[3]) ELSE @,
             !.en_passant =
                IF Len(parts) > 3 /\ parts[4] # <<"-">>
                THEN from_algebraic(parts[4]) ELSE @,
             !.halfmove_clock =
                IF Len(parts) > 4 THEN unwrap_or(parse_unsigned(parts[5], 255), 0)
                ELSE @,
             !.fullmove_number =
                IF Len(parts) > 5 THEN unwrap_or(parse_unsigned(parts[6], 65535), 1)
                ELSE @]
           p2 == [p1 EXCEPT !.hash = compute_hash(p1)]
       IN [tag |-> "Ok", pos |-> [p2 EXCEPT !.checkers = compute_checkers(p2)]]

FromFenParts(parts, overflow_checks) ==
  IF parts = <<>> THEN [tag |-> "Err", pos |-> Position_empty]
  ELSE CHOOSE r \in
         {FromFenFields(parts, placed) :
            placed \in {PlacePieces(parts[1], 1, Len(parts[1]),
                                    [tag |-> "Ok", pos |-> Position_empty, sq |-> 56],
                                    overflow_checks)}} : TRUE

from_fen(fen, overflow_checks) ==
  CHOOSE r \in {FromFenParts(parts, overflow_checks) :
                  parts \in {split_whitespace(fen)}} : TRUE

\* Square's Display and Position::to_fen
RECURSIVE RankToFen(_, _, _, _)
RankToFen(pos, r, f, empty_count) ==
  IF f > 7 THEN (IF empty_count > 0 THEN <<DigitChars[empty_count + 1]>> ELSE <<>>)
  ELSE IF pos.board[from_coords(f, r)] # NoPiece
       THEN (IF empty_count > 0 THEN <<DigitChars[empty_count + 1]>> ELSE <<>>)
            \o <<Piece_to_char(pos.board[from_coords(f, r)])>> \o RankToFen(pos, r, f + 1, 0)
       ELSE RankToFen(pos, r, f + 1, empty_count + 1)
RECURSIVE to_string(_)
to_string(n) == IF n < 10 THEN <<DigitChars[n + 1]>>
                ELSE to_string(n \div 10) \o <<DigitChars[(n % 10) + 1]>>
to_fen(pos) ==
  RankToFen(pos, 7, 0, 0) \o <<"/">> \o RankToFen(pos, 6, 0, 0) \o <<"/">>
  \o RankToFen(pos, 5, 0, 0) \o <<"/">> \o RankToFen(pos, 4, 0, 0) \o <<"/">>
  \o RankToFen(pos, 3, 0, 0) \o <<"/">> \o RankToFen(pos, 2, 0, 0) \o <<"/">>
  \o RankToFen(pos, 1, 0, 0) \o <<"/">> \o RankToFen(pos, 0, 0, 0)
  \o <<" ", IF pos.side_to_move = White THEN "w" ELSE "b", " ">>
  \o CastlingRights_to_fen(pos.castling) \o <<" ">>
  \o (IF pos.en_passant # NoSquare THEN to_algebraic(pos.en_passant) ELSE <<"-">>)
  \o <<" ">> \o to_string(pos.halfmove_clock) \o <<" ">> \o to_string(pos.fullmove_number)

(***************************************************************************)
(* movegen.rs: a MoveList is the sequence of the moves pushed, in order    *)
(***************************************************************************)
\* the order in which a Bitboard iterator (pop_lsb) yields the squares
RECURSIVE BBSeq(_)
BBSeq(bb) == IF bb = {} THEN <<>> ELSE <<lsb(bb)>> \o BBSeq(bb \ {lsb(bb)})
RECURSIVE Flatten(_)
Flatten(seqs) == IF seqs = <<>> THEN <<>> ELSE Head(seqs) \o Flatten(Tail(seqs))
SeqRange(q) == {q[i] : i \in DOMAIN q}

is_square_attacked(pos, sq, by_color, occupied) ==
  attackers_to_by(pos, sq, by_color, occupied) # EMPTY
any_attacked(pos, squares, by_color) ==
  \E sq \in squares : is_attacked_by(pos, sq, by_color)

is_ep_legal(pos, from, ep_sq) ==
  LET us == pos.side_to_move
      them == flip(us)
      king == pos.king_sq[us]
      captured_sq == IF us = White THEN ep_sq - 8 ELSE ep_sq + 8
      occupied == ((pos.all_occupied \ {from}) \ {captured_sq}) \cup {ep_sq}
  IN /\ rook_attacks(king, occupied) \cap orthogonal_sliders(pos, them) = EMPTY
     /\ bishop_attacks(king, occupied) \cap diagonal_sliders(pos, them) = EMPTY

add_promotions(from, to, capture) ==
  <<Move_promotion(from, to, Queen, capture), Move_promotion(from, to, Rook, capture),
    Move_promotion(from, to, Bishop, capture), Move_promotion(from, to, Knight, capture)>>

\* `for sq in bb { ... }`: the pushes of the loop body F, squares in ascending order
ForEach(bb, F(_)) == With(BBSeq(bb), LAMBDA t : Flatten([i \in 1..Len(t) |-> F(t[i])]))

Capture1(from, to) == <<Move_capture(from, to)>>
Quiet1(from, to) == <<Move_quiet(from, to)>>
\* the two inner loops shared by the knight, bishop, rook and queen sections
CapturesThenQuiets(from, attacks, their_pieces, empty) ==
  ForEach(attacks \cap their_pieces, LAMBDA to : Capture1(from, to))
  \o ForEach(attacks \cap empty, LAMBDA to : Quiet1(from, to))

\* a pawn loop: for each `to` of bb whose `from` is unpinned or moves along the pin
PawnLoop(bb, back, pinned, king, Push(_, _)) ==
  ForEach(bb, LAMBDA to :
    IF (to - back) \notin pinned \/ aligned(to - back, to, king)
    THEN Push(to - back, to) ELSE <<>>)

PushQuiet(from, to) == <<Move_quiet(from, to)>>
PushDouble(from, to) == <<Move_double_push(from, to)>>
PushCapture(from, to) == <<Move_capture(from, to)>>
PushPromotions(from, to) == add_promotions(from, to, FALSE)
PushPromotionCaptures(from, to) == add_promotions(from, to, TRUE)

generate_pawn_moves(pos, target, pinned, king) ==
  LET us == pos.side_to_move
      them == flip(us)
      pawns == piece_bb(pos, us, Pawn)
      their_pieces == pos.occupied[them]
      empty == Not(pos.all_occupied)
      push_dir == IF us = White THEN 8 ELSE -8
      promo_rank == IF us = White THEN RANK_7 ELSE RANK_2
      promo_pawns == pawns \cap promo_rank
      non_promo_pawns == pawns \ promo_rank
      single_push == pawn_push(non_promo_pawns, us) \cap empty
      double_push ==
        pawn_push(single_push \cap (IF us = White THEN RANK_3 ELSE RANK_6), us)
        \cap empty \cap target
      promo_push == pawn_push(promo_pawns, us) \cap empty \cap target
      capture_target == their_pieces \cap target
      left_captures ==
        (IF us = White THEN north_west(non_promo_pawns) ELSE south_west(non_promo_pawns))
        \cap capture_target
      right_captures ==
        (IF us = White THEN north_east(non_promo_pawns) ELSE south_east(non_promo_pawns))
        \cap capture_target
      promo_left_captures ==
        (IF us = White THEN north_west(promo_pawns) ELSE south_west(promo_pawns))
        \cap their_pieces \cap target
      promo_right_captures ==
        (IF us = White THEN north_east(promo_pawns) ELSE south_east(promo_pawns))
        \cap their_pieces \cap target
  IN PawnLoop(single_push \cap target, push_dir, pinned, king, PushQuiet)
     \o PawnLoop(double_push, 2 * push_dir, pinned, king, PushDouble)
     \o PawnLoop(promo_push, push_dir, pinned, king, PushPromotions)
     \o PawnLoop(left_captures, push_dir - 1, pinned, king, PushCapture)
     \o PawnLoop(right_captures, push_dir + 1, pinned, king, PushCapture)
     \o PawnLoop(promo_left_captures, push_dir - 1, pinned, king, PushPromotionCaptures)
     \o PawnLoop(promo_right_captures, push_dir + 1, pinned, king, PushPromotionCaptures)
     \o (IF pos.en_passant # NoSquare
         THEN ForEach(pawn_attacks(them, pos.en_passant) \cap pawns, LAMBDA from :
                IF is_ep_legal(pos, from, pos.en_passant)
                THEN <<Move_en_passant(from, pos.en_passant)>> ELSE <<>>)
         ELSE <<>>)

generate_king_moves(pos) ==
  LET us == pos.side_to_move
      them == flip(us)
      king == pos.king_sq[us]
  IN ForEach(king_attacks(king) \ pos.occupied[us], LAMBDA to :
       IF ~is_square_attacked(pos, to, them, pos.all_occupied \ {king})
       THEN IF to \in pos.occupied[them]
            THEN <<Move_capture(king, to)>> ELSE <<Move_quiet(king, to)>>
       ELSE <<>>)

\* the kingside block, then the queenside block
generate_castling(pos) ==
  LET us == pos.side_to_move
      them == flip(us)
      king == IF us = White THEN E1 ELSE E8
      ks_target == IF us = White THEN G1 ELSE G8
      qs_target == IF us = White THEN C1 ELSE C8
      ks_path == IF us = White THEN {5, 6} ELSE {61, 62}
      qs_path == IF us = White THEN {1, 2, 3} ELSE {57, 58, 59}
      ks_check_path == IF us = White THEN {5, 6} ELSE {61, 62}
      qs_check_path == IF us = White THEN {2, 3} ELSE {58, 59}
      blocks == <<[rights |-> kingside(us), path |-> ks_path,
                   check_path |-> ks_check_path, mv |-> Move_king_castle(king, ks_target)],
                  [rights |-> queenside(us), path |-> qs_path,
                   check_path |-> qs_check_path, mv |-> Move_queen_castle(king, qs_target)]>>
  IN Flatten([i \in 1..2 |->
       With(blocks[i], LAMBDA b :
         IF /\ CastlingRights_contains(pos.castling, b.rights)
            /\ pos.all_occupied \cap b.path = EMPTY
            /\ ~is_attacked_by(pos, king, them)
            /\ ~any_attacked(pos, b.check_path, them)
         THEN <<b.mv>> ELSE <<>>)])

\* the bishop, rook and queen sections: a pinned slider keeps to the pin line
SliderMoves(pos, pieces, Attacks(_, _), target, pinned, king) ==
  ForEach(pieces, LAMBDA from :
    With(Attacks(from, pos.all_occupied) \cap target, LAMBDA attacks :
      CapturesThenQuiets(from,
                         IF from \in pinned THEN attacks \cap line(from, king) ELSE attacks,
                         pos.occupied[flip(pos.side_to_move)], Not(pos.all_occupied))))

KnightMoves(pos, target, pinned) ==
  ForEach(piece_bb(pos, pos.side_to_move, Knight) \ pinned, LAMBDA from :
    CapturesThenQuiets(from, knight_attacks(from) \cap target,
                       pos.occupied[flip(pos.side_to_move)], Not(pos.all_occupied)))

\* generate_moves once target, pinned and king_sq are computed
GenerateMovesTo(pos, EVASIONS, target, pinned, king) ==
  generate_pawn_moves(pos, target, pinned, king)
  \o KnightMoves(pos, target, pinned)
  \o SliderMoves(pos, piece_bb(pos, pos.side_to_move, Bishop), bishop_attacks,
                 target, pinned, king)
  \o SliderMoves(pos, piece_bb(pos, pos.side_to_move, Rook), rook_attacks,
                 target, pinned, king)
  \o SliderMoves(pos, piece_bb(pos, pos.side_to_move, Queen), queen_attacks,
                 target, pinned, king)
  \o generate_king_moves(pos)
  \o (IF EVASIONS THEN <<>> ELSE generate_castling(pos))

generate_moves(pos, EVASIONS) ==
  LET us == pos.side_to_move
      king == pos.king_sq[us]
      target == IF EVASIONS
                THEN between(king, lsb(pos.checkers)) \cup pos.checkers
                ELSE Not(pos.occupied[us])
  IN With(pinned_pieces(pos, us), LAMBDA pinned :
       With(target, LAMBDA t : GenerateMovesTo(pos, EVASIONS, t, pinned, king)))

\* generate_moves::<false> without a checker, generate_moves::<true> with exactly
\* one, and the king's moves alone with more
generate_legal_moves(pos) ==
  IF pos.checkers # EMPTY /\ ~exactly_one(pos.checkers)
  THEN generate_king_moves(pos)
  ELSE generate_moves(pos, pos.checkers # EMPTY)

(***************************************************************************)
(* make_move.rs                                                            *)
(***************************************************************************)
CASTLING_RIGHTS_UPDATE ==
  [sq \in Squares |->
     MaskBits(CASE sq = A1 -> \h0D
                [] sq = E1 -> \h0C
                [] sq = H1 -> \h0E
                [] sq = A8 -> \h07
                [] sq = E8 -> \h03
                [] sq = H8 -> \h0B
                [] OTHER -> \h0F)]

remove_piece_internal(pos, sq, color, piece_type) ==
  [pos EXCEPT !.pieces[color][piece_type] = @ \ {sq},
              !.occupied[color] = @ \ {sq},
              !.all_occupied = @ \ {sq},
              !.board[sq] = NoPiece,
              !.hash = Xor(@, piece_key(color, piece_type, sq))]

put_piece_internal(pos, sq, color, piece_type) ==
  [pos EXCEPT !.pieces[color][piece_type] = @ \cup {sq},
              !.occupied[color] = @ \cup {sq},
              !.all_occupied = @ \cup {sq},
              !.board[sq] = Piece_new(color, piece_type),
              !.king_sq[color] = IF piece_type = King THEN sq ELSE @,
              !.hash = Xor(@, piece_key(color, piece_type, sq))]

\* apply_move panics: expect() on an empty source square, an index past the board,
\* or (when the build traps overflow) a clock that cannot be incremented
apply_move_panics(pos, mv, overflow_checks) ==
  LET us == pos.side_to_move
      from == from_sq(mv)
      to == to_sq(mv)
  IN \/ pos.board[from] = NoPiece
     \/ /\ is_en_passant(mv)
        /\ (IF us = White THEN to - 8 ELSE to + 8) \notin Squares
     \/ /\ overflow_checks
        /\ \/ /\ ~is_capture(mv)
              /\ Piece_type(pos.board[from]) # Pawn
              /\ pos.halfmove_clock = 255
           \/ us = Black /\ pos.fullmove_number = 65535

\* the sections of apply_move, in order; p is the position so far and pos
\* the position before the move
ClearEnPassant(pos) ==
  [pos EXCEPT !.hash = IF pos.en_passant # NoSquare
                       THEN Xor(@, en_passant_key(file(pos.en_passant))) ELSE @,
              !.en_passant = NoSquare]
HandleCaptures(p, mv) ==
  IF is_en_passant(mv)
  THEN remove_piece_internal(p, IF p.side_to_move = White THEN to_sq(mv) - 8
                                ELSE to_sq(mv) + 8,
                             flip(p.side_to_move), Pawn)
  ELSE IF is_capture(mv) /\ p.board[to_sq(mv)] # NoPiece
  THEN remove_piece_internal(p, to_sq(mv), flip(p.side_to_move),
                             Piece_type(p.board[to_sq(mv)]))
  ELSE p
MoveThePiece(p, mv, piece_type) ==
  With(remove_piece_internal(p, from_sq(mv), p.side_to_move, piece_type), LAMBDA q :
    put_piece_internal(q, to_sq(mv), q.side_to_move,
                       IF is_promotion(mv) THEN promotion_piece(mv) ELSE piece_type))
HandleCastling(p, mv) ==
  LET us == p.side_to_move
      rook_from == IF is_kingside_castle(mv)
                   THEN (IF us = White THEN H1 ELSE H8)
                   ELSE (IF us = White THEN A1 ELSE A8)
      rook_to == IF is_kingside_castle(mv)
                 THEN (IF us = White THEN F1 ELSE F8)
                 ELSE (IF us = White THEN D1 ELSE D8)
  IN IF is_castle(mv)
     THEN With(remove_piece_internal(p, rook_from, us, Rook), LAMBDA q :
            put_piece_internal(q, rook_to, us, Rook))
     ELSE p
\* a bug the update could have: the source square is not looked up
UpdateCastlingRightsToOnly(p, mv) ==
  With(p.castling \cap CASTLING_RIGHTS_UPDATE[to_sq(mv)],
       LAMBDA castling :
         [p EXCEPT !.castling = castling,
                   !.hash = IF castling # p.castling
                            THEN Xor(Xor(@, castling_key(p.castling)), castling_key(castling))
                            ELSE @])
\* a bug the update could have: the destination square is not looked up
UpdateCastlingRightsFromOnly(p, mv) ==
  With(p.castling \cap CASTLING_RIGHTS_UPDATE[from_sq(mv)],
       LAMBDA castling :
         [p EXCEPT !.castling = castling,
                   !.hash = IF castling # p.castling
                            THEN Xor(Xor(@, castling_key(p.castling)), castling_key(castling))
                            ELSE @])
UpdateCastlingRights(p, mv) ==
  With((p.castling \cap CASTLING_RIGHTS_UPDATE[from_sq(mv)])
         \cap CASTLING_RIGHTS_UPDATE[to_sq(mv)],
       LAMBDA castling :
         [p EXCEPT !.castling = castling,
                   !.hash = IF castling # p.castling
                            THEN Xor(Xor(@, castling_key(p.castling)), castling_key(castling))
                            ELSE @])
\* a bug the setting could have: the square the pawn lands on
SetEnPassantAtDestination(p, mv) ==
  IF is_double_push(mv)
  THEN [p EXCEPT !.en_passant = to_sq(mv),
                 !.hash = Xor(@, en_passant_key(file(to_sq(mv))))]
  ELSE p
SetEnPassant(p, mv) ==
  LET ep_sq == IF p.side_to_move = White THEN from_sq(mv) + 8 ELSE from_sq(mv) - 8
  IN IF is_double_push(mv)
     THEN [p EXCEPT !.en_passant = ep_sq, !.hash = Xor(@, en_passant_key(file(ep_sq)))]
     ELSE p
UpdateClocksAndSide(p, mv, piece_type) ==
  [p EXCEPT !.halfmove_clock = IF is_capture(mv) \/ piece_type = Pawn THEN 0
                               ELSE (@ + 1) % 256,
            !.fullmove_number = IF p.side_to_move = Black THEN (@ + 1) % 65536 ELSE @,
            !.side_to_move = flip(@),
            !.hash = Xor(@, side_key)]
UpdateCheckers(p) == [p EXCEPT !.checkers = compute_checkers(p)]

\* apply_move when it does not panic
apply_move(pos, mv) ==
  With(Piece_type(pos.board[from_sq(mv)]), LAMBDA piece_type :
  With(ClearEnPassant(pos), LAMBDA p1 :
  With(HandleCaptures(p1, mv), LAMBDA p2 :
  With(MoveThePiece(p2, mv, piece_type), LAMBDA p3 :
  With(HandleCastling(p3, mv), LAMBDA p4 :
  With(UpdateCastlingRights(p4, mv), LAMBDA p5 :
  With(SetEnPassant(p5, mv), LAMBDA p6 :
  With(UpdateClocksAndSide(p6, mv, piece_type), LAMBDA p7 : UpdateCheckers(p7)))))))))

make_move(pos, mv) == apply_move(pos, mv)

make_null_move(pos) ==
  With([pos EXCEPT
          !.hash = Xor(IF pos.en_passant # NoSquare
                       THEN Xor(@, en_passant_key(file(pos.en_passant))) ELSE @,
                       side_key),
          !.en_passant = NoSquare,
          !.side_to_move = flip(@)],
       LAMBDA p1 : UpdateCheckers(p1))

(***************************************************************************)
(* make_move.rs: parse_uci_move and make_uci_move.  uci is the sequence of *)
(* the characters of the string; len() and the slices count bytes.         *)
(***************************************************************************)
NoMove == -1
ByteLen(c) == IF c \in AsciiChars THEN 1 ELSE 2
RECURSIVE str_len(_)
str_len(s) == IF s = <<>> THEN 0 ELSE ByteLen(Head(s)) + str_len(Tail(s))
\* byte offset k is the start of a character of s, or its end
is_char_boundary(s, k) == \E n \in 0..Len(s) : str_len(SubSeq(s, 1, n)) = k
\* &s[a..b] for char boundaries a and b
str_slice(s, a, b) ==
  LET first == CHOOSE n \in 0..Len(s) : str_len(SubSeq(s, 1, n)) = a
      last == CHOOSE n \in 0..Len(s) : str_len(SubSeq(s, 1, n)) = b
  IN SubSeq(s, first + 1, last)

\* slicing at a byte offset inside a character panics
parse_uci_move_panics(uci) ==
  /\ str_len(uci) >= 4
  /\ \/ ~is_char_boundary(uci, 2)
     \/ /\ from_algebraic(str_slice(uci, 0, 2)) # NoSquare
        /\ ~is_char_boundary(uci, 4)

\* the loop over the legal moves, from index i on
RECURSIVE FindUciMove(_, _, _, _, _)
FindUciMove(list, i, from, to, uci) ==
  IF i > Len(list) THEN NoMove
  ELSE IF from_sq(list[i]) = from /\ to_sq(list[i]) = to
       THEN IF is_promotion(list[i])
            THEN IF Len(uci) < 5 THEN NoMove
                 ELSE IF to_ascii_lowercase(uci[5])
                           # PieceType_to_char(promotion_piece(list[i]))
                      THEN FindUciMove(list, i + 1, from, to, uci)
                      ELSE list[i]
            ELSE list[i]
       ELSE FindUciMove(list, i + 1, from, to, uci)

\* parse_uci_move when it does not panic; NoMove stands for None
parse_uci_move(pos, uci) ==
  IF str_len(uci) < 4 THEN NoMove
  ELSE LET from == from_algebraic(str_slice(uci, 0, 2))
       IN IF from = NoSquare THEN NoMove
          ELSE LET to == from_algebraic(str_slice(uci, 2, 4))
               IN IF to = NoSquare THEN NoMove
                  ELSE FindUciMove(generate_legal_moves(pos), 1, from, to, uci)

(***************************************************************************)
(* perft.rs                                                                *)
(***************************************************************************)
RECURSIVE SumSeq(_)
SumSeq(q) == IF q = <<>> THEN 0 ELSE Head(q) + SumSeq(Tail(q))
RECURSIVE perft(_, _)
\* perft past the move generation: moves is the move list of pos
PerftMoves(pos, moves, depth) ==
  IF depth = 1 THEN Len(moves)
  ELSE SumSeq([i \in 1..Len(moves) |->
                 With(make_move(pos, moves[i]), LAMBDA new_pos : perft(new_pos, depth - 1))])
perft(pos, depth) ==
  IF depth = 0 THEN 1
  ELSE With(generate_legal_moves(pos), LAMBDA moves : PerftMoves(pos, moves, depth))

(***************************************************************************)
(* FEN strings of the source: Position::STARTPOS and the perft positions   *)
(***************************************************************************)
STARTPOS ==
  <<"r", "n", "b", "q", "k", "b", "n", "r", "/", "p", "p", "p", "p", "p", "p", "p",
    "p", "/", "8", "/", "8", "/", "8", "/", "8", "/", "P", "P", "P", "P", "P", "P",
    "P", "P", "/", "R", "N", "B", "Q", "K", "B", "N", "R", " ", "w", " ", "K", "Q",
    "k", "q", " ", "-", " ", "0", " ", "1">>
KIWIPETE ==
  <<"r", "3", "k", "2", "r", "/", "p", "1", "p", "p", "q", "p", "b", "1", "/", "b",
    "n", "2", "p", "n", "p", "1", "/", "3", "P", "N", "3", "/", "1", "p", "2", "P",
    "3", "/", "2", "N", "2", "Q", "1", "p", "/", "P", "P", "P", "B", "B", "P", "P",
    "P", "/", "R", "3", "K", "2", "R", " ", "w", " ", "K", "Q", "k", "q", " ", "-",
    " ", "0", " ", "1">>
POSITION3 ==
  <<"8", "/", "2", "p", "5", "/", "3", "p", "4", "/", "K", "P", "5", "r", "/", "1",
    "R", "3", "p", "1", "k", "/", "8", "/", "4", "P", "1", "P", "1", "/", "8", " ",
    "w", " ", "-", " ", "-", " ", "0", " ", "1">>
POSITION4 ==
  <<"r", "3", "k", "2", "r", "/", "P", "p", "p", "p", "1", "p", "p", "p", "/", "1",
    "b", "3", "n", "b", "N", "/", "n", "P", "6", "/", "B", "B", "P", "1", "P", "3",
    "/", "q", "4", "N", "2", "/", "P", "p", "1", "P", "2", "P", "P", "/", "R", "2",
    "Q", "1", "R", "K", "1", " ", "w", " ", "k", "q", " ", "-", " ", "0", " ", "1">>
POSITION5 ==
  <<"r", "n", "b", "q", "1", "k", "1", "r", "/", "p", "p", "1", "P", "b", "p", "p",
    "p", "/", "2", "p", "5", "/", "8", "/", "2", "B", "5", "/", "8", "/", "P", "P",
    "P", "1", "N", "n", "P", "P", "/", "R", "N", "B", "Q", "K", "2", "R", " ", "w",
    " ", "K", "Q", " ", "-", " ", "1", " ", "8">>
\* Position::new()
Position_new == from_fen(STARTPOS, FALSE).pos

\* make_uci_move when parse_uci_move does not panic; NoPosition stands for None
NoPosition == [tag |-> "None"]
make_uci_move(pos, uci) ==
  LET mv == parse_uci_move(pos, uci)
  IN IF mv = NoMove THEN NoPosition ELSE make_move(pos, mv)

Max(a, b) == IF a >= b THEN a ELSE b
Min(a, b) == IF a <= b THEN a ELSE b

\* search.rs and ordering.rs: the score constants
INFINITY == 32000
MATE_SCORE == 30000
MAX_PLY == 128

(***************************************************************************)
(* tt.rs: the transposition table.  A 64-bit hash is the pair of its upper *)
(* and its lower 32 bits, <<hi, lo>>; a table is its entries, numbered     *)
(* from 0, and its age.                                                    *)
(***************************************************************************)
Bound_None == 0
Bound_Upper == 1
Bound_Lower == 2
Bound_Exact == 3

\* the casts `as i8` and `as i16` of an integer, and `as u8`
as_i8(x) == ((x + 128) % 256) - 128
as_i16(x) == ((x + 32768) % 65536) - 32768

\* TTEntry::default()
TTEntry_default ==
  [key |-> 0, best_move |-> Move_NULL, score |-> 0, depth |-> 0,
   bound |-> Bound_None, age |-> 0]

\* the sums of score_to_tt and score_from_tt leave the i16 range
score_to_tt_overflows(score, ply) ==
  \/ (score >= MATE_SCORE - MAX_PLY /\ score + as_i16(ply) > 32767)
  \/ (score < MATE_SCORE - MAX_PLY /\ score <= -MATE_SCORE + MAX_PLY
        /\ score - as_i16(ply) < -32768)
score_from_tt_overflows(score, ply) ==
  \/ (score >= MATE_SCORE - MAX_PLY /\ score - as_i16(ply) > 32767)
  \/ (score < MATE_SCORE - MAX_PLY /\ score <= -MATE_SCORE + MAX_PLY
        /\ score + as_i16(ply) > 32767)

\* a bug score_to_tt could have: the score is stored as it is
score_to_tt_unadjusted(score, ply) == score
\* TTEntry::score_to_tt, in the build that wraps
score_to_tt(score, ply) ==
  IF score >= MATE_SCORE - MAX_PLY THEN as_i16(score + as_i16(ply))
  ELSE IF score <= -MATE_SCORE + MAX_PLY THEN as_i16(score - as_i16(ply))
  ELSE score

\* TTEntry::score_from_tt, in the build that wraps
score_from_tt(score, ply) ==
  IF score >= MATE_SCORE - MAX_PLY THEN as_i16(score - as_i16(ply))
  ELSE IF score <= -MATE_SCORE + MAX_PLY THEN as_i16(score + as_i16(ply))
  ELSE score

\* TTEntry::is_valid, depth_ok, adjusted_score
is_valid(entry, hash) == entry.key = hash[1]
depth_ok(entry, depth) == entry.depth >= as_i8(depth)
adjusted_score(entry, ply) == score_from_tt(entry.score, ply)

\* TranspositionTable::new with num_entries entries (a power of two)
TranspositionTable_new(num_entries) ==
  [table |-> [i \in 0..(num_entries - 1) |-> TTEntry_default], age |-> 0]
num_entries(t) == Cardinality(DOMAIN t.table)
\* TranspositionTable::index: (hash as usize) & mask, mask = num_entries - 1
TT_index(t, hash) == hash[2] % num_entries(t)

\* Option<&TTEntry>::None
NoEntry == [tag |-> "None"]
\* TranspositionTable::probe
probe(t, hash) ==
  With(t.table[TT_index(t, hash)], LAMBDA entry :
    IF is_valid(entry, hash) THEN entry ELSE NoEntry)

\* TranspositionTable::store
store(t, hash, depth, score, bound, best_move, ply) ==
  LET idx == TT_index(t, hash)
      existing == t.table[idx]
      key == hash[1]
      should_replace == \/ existing.key # key
                        \/ existing.age # t.age
                        \/ depth >= existing.depth
                        \/ bound = Bound_Exact
  IN IF should_replace
     THEN [t EXCEPT !.table[idx] =
             [key |-> key, best_move |-> best_move, score |-> score_to_tt(score, ply),
              depth |-> as_i8(depth), bound |-> bound, age |-> t.age]]
     ELSE IF ~is_null(best_move) /\ is_null(existing.best_move)
     THEN [t EXCEPT !.table[idx].best_move = best_move]
     ELSE t

\* TranspositionTable::clear
TT_clear(t) == [table |-> [i \in DOMAIN t.table |-> TTEntry_default], age |-> 0]

\* TranspositionTable::new_search: the age is a u8
new_search(t) == [t EXCEPT !.age = (@ + 1) % 256]

\* TranspositionTable::hashfull
hashfull(t) ==
  LET sample_size == Min(1000, num_entries(t))
      used == Cardinality({i \in 0..(sample_size - 1) :
                             t.table[i].bound # Bound_None /\ t.table[i].age = t.age})
  IN (used * 1000) \div sample_size

(***************************************************************************)
(* State.  pos is the Position the program holds (the engine's position,   *)
(* or the position a caller of the library plays moves on); panicked says  *)
(* that the process has aborted in a panic; overflow_checks is the build:  *)
(* whether integer overflow is trapped (debug profile) or wraps (release). *)
(***************************************************************************)
VARIABLES pos, panicked, overflow_checks
posVars == <<pos, panicked, overflow_checks>>

\* the moves played so far: position in the line below, moves off it, null moves
VARIABLES book, free, nulls
gameVars == <<book, free, nulls>>

\* a run of perft or of perft_divide on pos: the function called, the FEN pos
\* was built from, the depth asked for, the index of the next root move and the
\* total so far (perft_divide), and the value returned (NoCount until then)
VARIABLES pf
NoCount == -1
PerftIdle == [fn |-> "none", fen |-> <<>>, depth |-> 0, i |-> 0, total |-> 0,
              nodes |-> NoCount]

\* the last position or setboard command the engine has handled: its arguments,
\* whether it left the engine's position as it was, what from_fen returned, and
\* for each call of make_uci_move the position it was called on (trail) and
\* what it returned
VARIABLES cmd
CmdNone == [name |-> "none", fen |-> <<>>, moves |-> <<>>, unchanged |-> TRUE,
            result |-> "none", trail |-> <<>>, rets |-> <<>>]

\* the UCI engine at work.  script: the lines the GUI has yet to write;
\* stdin: the lines written and not yet read by the loop of run; stdout: the
\* moves of the bestmove lines printed; STOP_FLAG: the static flag; now: the
\* clock, in ms; search: the locals of Position::search and its SearchInfo,
\* with pc the place of the engine ("idle" in the loop of run, "call" before a
\* call of negamax at the root, "moves" in its loop over the root moves,
\* "finish" after the iterative-deepening loop); node: the locals of the root
\* negamax; obs: what an observer of the run records
VARIABLES script, stdin, stdout, STOP_FLAG, now, search, node, obs
searchVars == <<script, stdin, stdout, STOP_FLAG, now, search, node, obs>>

\* Option::None of a number
None == -1
NoLine == [name |-> "none", depth |-> None, movetime |-> None, wtime |-> None,
           btime |-> None, winc |-> None, binc |-> None, movestogo |-> None,
           infinite |-> FALSE]
NoSearch ==
  [pc |-> "idle",
   info |-> [nodes |-> 0, deadline |-> None, stopped |-> FALSE],
   max_depth |-> 0, depth |-> 0, alpha |-> 0, beta |-> 0, delta |-> 0,
   best_move |-> Move_NULL, best_score |-> 0, pv |-> <<>>, current_pv |-> <<>>]
NoNode == [alpha |-> 0, best_score |-> 0, left |-> {}]
NoObs == [completed |-> [n |-> 0, move |-> Move_NULL, score |-> 0, pv |-> <<>>],
          stop_arrived |-> FALSE, polled |-> FALSE]
\* no engine loop runs
SearchIdle ==
  /\ script = <<>>
  /\ stdin = <<>>
  /\ stdout = <<>>
  /\ STOP_FLAG = FALSE
  /\ now = 0
  /\ search = NoSearch
  /\ node = NoNode
  /\ obs = NoObs

\* the engine's transposition table.  tt: the table; ttop: the last call made
\* on it, with its arguments and what it returned; ttobs: what an observer
\* records, namely the pairs <<slot, key>> stored since the table was made or
\* cleared, the numbers of calls of store and of new_search, and the number of
\* runs of searches
VARIABLES tt, ttop, ttobs
ttVars == <<tt, ttop, ttobs>>
\* the tables followed here have 2^TableBits entries
TableBits == 1
NumEntries == 2 ^ TableBits
NoOp == [name |-> "none"]
NoTTObs == [stored |-> {}, stores |-> 0, searches |-> 0, runs |-> 0]

\* a call of a function of the library: its name, its arguments and, once it
\* has returned, its result
VARIABLES call
NoCall == [fn |-> "none"]

libVars == <<ttVars, call>>
\* a fresh table, and no call
LibIdle ==
  /\ tt = TranspositionTable_new(NumEntries)
  /\ ttop = NoOp
  /\ ttobs = NoTTObs
  /\ call = NoCall

vars == <<posVars, gameVars, pf, cmd, searchVars, libVars>>

(***************************************************************************)
(* The game: make_move on moves of generate_legal_moves, and               *)
(* make_null_move, from Position::new().                                   *)
(***************************************************************************)
MaxFree == 1
MaxNulls == 1
\* a line of play, each move taken from the legal move list of its position
BookLine ==
  << <<"f", "2", "f", "3">>, <<"g", "8", "f", "6">>, <<"e", "1", "f", "2">>,
     <<"f", "6", "e", "4">>, <<"f", "2", "g", "3">>, <<"e", "4", "g", "3">>,
     <<"g", "3", "f", "2">>, <<"a", "7", "a", "6">>, <<"g", "3", "h", "3">> >>
OffBook == Len(BookLine) + 1

Init ==
  /\ pos = Position_new
  /\ panicked = FALSE
  /\ overflow_checks \in BOOLEAN
  /\ book = 0
  /\ free = 0
  /\ nulls = 0
  /\ pf = PerftIdle
  /\ cmd = CmdNone
  /\ SearchIdle
  /\ LibIdle

\* self.make_move(mv): the new position, or the panic of apply_move
MakeMove(mv) ==
  IF apply_move_panics(pos, mv, overflow_checks)
  THEN /\ panicked' = TRUE
       /\ pos' = pos
  ELSE /\ panicked' = FALSE
       /\ pos' = make_move(pos, mv)

PlayBook ==
  /\ ~panicked
  /\ book < Len(BookLine)
  /\ \E mv \in SeqRange(generate_legal_moves(pos)) :
       /\ to_uci(mv) = BookLine[book + 1]
       /\ MakeMove(mv)
  /\ book' = book + 1
  /\ UNCHANGED <<libVars, overflow_checks, free, nulls, pf, cmd, searchVars>>

PlayFree ==
  /\ ~panicked
  /\ free < MaxFree
  /\ \E mv \in SeqRange(generate_legal_moves(pos)) : MakeMove(mv)
  /\ free' = free + 1
  /\ book' = OffBook
  /\ UNCHANGED <<libVars, overflow_checks, nulls, pf, cmd, searchVars>>

\* the search makes a null move only when the side to move is not in check
PlayNull ==
  /\ ~panicked
  /\ nulls < MaxNulls
  /\ ~is_in_check(pos)
  /\ pos' = make_null_move(pos)
  /\ nulls' = nulls + 1
  /\ book' = OffBook
  /\ UNCHANGED <<libVars, panicked, overflow_checks, free, pf, cmd, searchVars>>

Next == PlayBook \/ PlayFree \/ PlayNull

Spec == Init /\ [][Next]_vars

(***************************************************************************)
(* Properties of the game                                                  *)
(***************************************************************************)
\* C1: in every position reached from the start position by make_move on
\* generated legal moves and make_null_move, the incrementally maintained hash
\* equals compute_hash() recomputed from the bitboards, the castling rights,
\* the en-passant file and the side to move.
HashMatchesComputeHash == pos.hash = compute_hash(pos)

\* the squares holding piece p according to the bitboards
PieceSquares(p, piece) == p.pieces[Piece_color(piece)][Piece_type(piece)]
AllPieces == {Piece_new(c, pt) : c \in Colors, pt \in PieceTypes}

\* C2: after any sequence of legal moves from the start position the twelve
\* piece bitboards are pairwise disjoint, occupied[c] is the union of colour
\* c's six piece bitboards, all_occupied is the union of the two occupancies,
\* and board[s] is Some(p) exactly when the bitboard of p contains s.
BoardConsistent ==
  /\ \A p, q \in AllPieces :
       p # q => PieceSquares(pos, p) \cap PieceSquares(pos, q) = {}
  /\ \A c \in Colors :
       pos.occupied[c] = UNION {pos.pieces[c][pt] : pt \in PieceTypes}
  /\ pos.all_occupied = pos.occupied[White] \cup pos.occupied[Black]
  /\ \A s \in Squares : \A p \in AllPieces :
       pos.board[s] = p <=> s \in PieceSquares(pos, p)

\* The rules of chess: the squares a piece of the given colour and type standing
\* on from attacks, the other pieces standing on the squares of occ.
ChessBetween(from, to, s) ==
  /\ s \notin {from, to}
  /\ (file(s) - file(from)) * (rank(to) - rank(from))
       = (rank(s) - rank(from)) * (file(to) - file(from))
  /\ abs_diff(file(from), file(s)) + abs_diff(file(s), file(to))
       = abs_diff(file(from), file(to))
  /\ abs_diff(rank(from), rank(s)) + abs_diff(rank(s), rank(to))
       = abs_diff(rank(from), rank(to))
ChessClear(from, to, occ) == \A s \in occ : ~ChessBetween(from, to, s)
ChessAttacks(c, pt, from, to, occ) ==
  LET df == abs_diff(file(from), file(to))
      dr == abs_diff(rank(from), rank(to))
      diagonal == df = dr /\ df > 0
      straight == (df = 0) # (dr = 0)
  IN CASE pt = Pawn -> df = 1 /\ rank(to) - rank(from) = (IF c = White THEN 1 ELSE -1)
       [] pt = Knight -> {df, dr} = {1, 2}
       [] pt = King -> df <= 1 /\ dr <= 1 /\ from # to
       [] pt = Bishop -> diagonal /\ ChessClear(from, to, occ)
       [] pt = Rook -> straight /\ ChessClear(from, to, occ)
       [] pt = Queen -> (diagonal \/ straight) /\ ChessClear(from, to, occ)
\* some piece of colour by attacks sq in position p
ChessAttacked(p, sq, by) ==
  \E pt \in PieceTypes : \E from \in p.pieces[by][pt] :
    ChessAttacks(by, pt, from, sq, p.all_occupied)

\* C3: every move of generate_legal_moves has a piece of the side to move on
\* its from square, and after make_move the king of the side that moved is
\* not attacked by any enemy piece.
LegalMovesAreLegal ==
  ~panicked =>
    \A mv \in SeqRange(generate_legal_moves(pos)) :
      /\ pos.board[from_sq(mv)] # NoPiece
      /\ Piece_color(pos.board[from_sq(mv)]) = pos.side_to_move
      /\ ~apply_move_panics(pos, mv, overflow_checks)
      /\ LET after == make_move(pos, mv)
         IN \A k \in after.pieces[pos.side_to_move][King] :
              ~ChessAttacked(after, k, flip(pos.side_to_move))

\* C4: after any sequence of legal moves from the start position each colour
\* has exactly one king, king_sq[c] is its square, and no generated legal
\* move captures a king.
OneKingEach ==
  /\ \A c \in Colors : pos.pieces[c][King] = {pos.king_sq[c]}
  /\ ~panicked =>
       \A mv \in SeqRange(generate_legal_moves(pos)) :
         to_sq(mv) \notin pos.pieces[flip(pos.side_to_move)][King]

(***************************************************************************)
(* perft: the engine's perft command (run_perft) walks the root moves of   *)
(* its position with perft_divide; the tests call perft itself.            *)
(***************************************************************************)
MaxPerftDepth == 3
PerftFens == {STARTPOS, KIWIPETE, POSITION3, POSITION4, POSITION5}

InitPerft ==
  /\ \E fen \in PerftFens : \E depth \in 1..MaxPerftDepth :
     \E fn \in {"perft", "perft_divide"} :
       /\ pos = from_fen(fen, FALSE).pos
       /\ pf = [fn |-> fn, fen |-> fen, depth |-> depth, i |-> 1, total |-> 0,
                nodes |-> NoCount]
  /\ panicked = FALSE
  /\ overflow_checks = FALSE
  /\ book = 0
  /\ free = 0
  /\ nulls = 0
  /\ cmd = CmdNone
  /\ SearchIdle
  /\ LibIdle

\* perft(&pos, depth)
PerftCall ==
  /\ pf.fn = "perft"
  /\ pf.nodes = NoCount
  /\ pf' = [pf EXCEPT !.nodes = perft(pos, pf.depth)]
  /\ UNCHANGED <<libVars, posVars, gameVars, cmd, searchVars>>

\* one turn of the loop of perft_divide
PerftDivideStep ==
  /\ pf.fn = "perft_divide"
  /\ pf.nodes = NoCount
  /\ \E moves \in {generate_legal_moves(pos)} :
       /\ pf.i <= Len(moves)
       /\ \E new_pos \in {make_move(pos, moves[pf.i])} :
            pf' = [pf EXCEPT !.i = @ + 1,
                             !.total = @ + perft(new_pos, pf.depth - 1)]
  /\ UNCHANGED <<libVars, posVars, gameVars, cmd, searchVars>>

\* perft_divide returns its total
PerftDivideReturn ==
  /\ pf.fn = "perft_divide"
  /\ pf.nodes = NoCount
  /\ pf.i > Len(generate_legal_moves(pos))
  /\ pf' = [pf EXCEPT !.nodes = pf.total]
  /\ UNCHANGED <<libVars, posVars, gameVars, cmd, searchVars>>

NextPerft == PerftCall \/ PerftDivideStep \/ PerftDivideReturn

SpecPerft == InitPerft /\ [][NextPerft]_vars

\* the reference counts, by depth
PerftReference(fen) ==
  CASE fen = STARTPOS -> <<20, 400, 8902, 197281>>
    [] fen = KIWIPETE -> <<48, 2039, 97862>>
    [] fen = POSITION3 -> <<14, 191, 2812, 43238>>
    [] fen = POSITION4 -> <<6, 264, 9467>>
    [] fen = POSITION5 -> <<44, 1486, 62379>>

\* C10: perft(P, d) equals the reference count for every listed position and
\* depth: start position 20/400/8902/197281, Kiwipete 48/2039/97862, position
\* 3 14/191/2812/43238, position 4 6/264/9467, position 5 44/1486/62379.
PerftMatchesReference ==
  (pf.nodes # NoCount /\ pf.depth <= Len(PerftReference(pf.fen)))
    => pf.nodes = PerftReference(pf.fen)[pf.depth]

(***************************************************************************)
(* The position commands: UciEngine::cmd_position (uci.rs) and             *)
(* XBoardEngine::cmd_setboard (xboard.rs), on the engine's position.       *)
(***************************************************************************)
BAD_PIECE ==
  <<"r", "n", "b", "q", "k", "b", "n", "r", "/", "p", "p", "p", "p", "p", "p", "p",
    "p", "/", "8", "/", "8", "/", "8", "/", "8", "/", "P", "P", "P", "P", "P", "P",
    "P", "P", "/", "R", "N", "B", "Q", "K", "B", "N", "X", " ", "w", " ", "K", "Q",
    "k", "q", " ", "-", " ", "0", " ", "1">>
BAD_SIDE ==
  <<"r", "n", "b", "q", "k", "b", "n", "r", "/", "p", "p", "p", "p", "p", "p", "p",
    "p", "/", "8", "/", "8", "/", "8", "/", "8", "/", "P", "P", "P", "P", "P", "P",
    "P", "P", "/", "R", "N", "B", "Q", "K", "B", "N", "R", " ", "x", " ", "K", "Q",
    "k", "q", " ", "-", " ", "0", " ", "1">>
LONG_RANK ==
  <<"r", "n", "b", "q", "k", "b", "n", "r", "r", "/", "p", "p", "p", "p", "p", "p",
    "p", "p", "/", "8", "/", "8", "/", "8", "/", "8", "/", "P", "P", "P", "P", "P",
    "P", "P", "P", "/", "R", "N", "B", "Q", "K", "B", "N", "R", " ", "w", " ", "K",
    "Q", "k", "q", " ", "-", " ", "0", " ", "1">>
NO_KING ==
  <<"r", "n", "b", "q", "k", "b", "n", "r", "/", "p", "p", "p", "p", "p", "p", "p",
    "p", "/", "8", "/", "8", "/", "8", "/", "8", "/", "P", "P", "P", "P", "P", "P",
    "P", "P", "/", "R", "N", "B", "Q", "1", "B", "N", "R", " ", "w", " ", "k", "q",
    " ", "-", " ", "0", " ", "1">>
PROMOTION_FEN ==
  <<"8", "/", "P", "7", "/", "8", "/", "8", "/", "8", "/", "8", "/", "8", "/", "4",
    "K", "2", "k", " ", "w", " ", "-", " ", "-", " ", "0", " ", "1">>
CmdFens == {KIWIPETE, PROMOTION_FEN, BAD_PIECE, BAD_SIDE, LONG_RANK, NO_KING}

\* "U+00E9" stands for the character e-acute, two bytes long in UTF-8
MoveStrings ==
  { <<"e", "2", "e", "4">>, <<"e", "2", "e", "5">>, <<"e", "2">>,
    <<"e", "9", "e", "4">>, <<"a", "U+00E9", "4">>,
    <<"a", "7", "a", "8">>, <<"a", "7", "a", "8", "k">>, <<"a", "7", "a", "8", "Q">> }
\* the longest list of moves of a position command
MaxMoves == 1
RECURSIVE SeqsUpTo(_, _)
SeqsUpTo(S, n) ==
  IF n = 0 THEN {<<>>}
  ELSE SeqsUpTo(S, n - 1)
       \cup {Append(q, x) : q \in {r \in SeqsUpTo(S, n - 1) : Len(r) = n - 1}, x \in S}

InitCmd ==
  /\ pos = Position_new
  /\ panicked = FALSE
  /\ overflow_checks \in BOOLEAN
  /\ book = 0
  /\ free = 0
  /\ nulls = 0
  /\ pf = PerftIdle
  /\ cmd = CmdNone
  /\ SearchIdle
  /\ LibIdle

\* one turn of the loop over the move strings of cmd_position: st holds the
\* position, whether the thread has panicked, and the calls so far
UciMoveStep(st, uci) ==
  IF parse_uci_move_panics(uci)
  THEN [st EXCEPT !.panicked = TRUE, !.trail = Append(@, st.pos)]
  ELSE With(parse_uci_move(st.pos, uci), LAMBDA mv :
         IF mv = NoMove
         THEN [st EXCEPT !.trail = Append(@, st.pos), !.rets = Append(@, "None")]
         ELSE IF apply_move_panics(st.pos, mv, overflow_checks)
         THEN [st EXCEPT !.panicked = TRUE, !.trail = Append(@, st.pos)]
         ELSE [st EXCEPT !.pos = make_move(st.pos, mv),
                         !.trail = Append(@, st.pos), !.rets = Append(@, "Some")])
RECURSIVE UciMoves(_, _, _)
UciMoves(st, moves, i) ==
  IF i > Len(moves) \/ st.panicked THEN st
  ELSE With(UciMoveStep(st, moves[i]), LAMBDA next : UciMoves(next, moves, i + 1))

\* the end of cmd_position: the moves are played on the position p just set
PositionMoves(name, fen, result, p, moves) ==
  \E st \in {UciMoves([pos |-> p, panicked |-> FALSE, trail |-> <<>>, rets |-> <<>>],
                      moves, 1)} :
    /\ pos' = st.pos
    /\ panicked' = st.panicked
    /\ cmd' = [name |-> name, fen |-> fen, moves |-> moves, unchanged |-> (st.pos = pos),
               result |-> result, trail |-> st.trail, rets |-> st.rets]

\* position startpos [moves ...]
CmdPositionStartpos ==
  /\ ~panicked
  /\ \E moves \in SeqsUpTo(MoveStrings, MaxMoves) :
       PositionMoves("position startpos", <<>>, "none", Position_new, moves)
  /\ UNCHANGED <<libVars, overflow_checks, gameVars, pf, searchVars>>

\* position fen <fen> [moves ...]
CmdPositionFen ==
  /\ ~panicked
  /\ \E fen \in CmdFens : \E moves \in SeqsUpTo(MoveStrings, MaxMoves) :
     \E r \in {from_fen(fen, overflow_checks)} :
       IF r.tag = "Panic"
       THEN /\ panicked' = TRUE
            /\ pos' = pos
            /\ cmd' = [name |-> "position fen", fen |-> fen, moves |-> moves,
                       unchanged |-> TRUE, result |-> r.tag, trail |-> <<>>,
                       rets |-> <<>>]
       ELSE PositionMoves("position fen", fen, r.tag,
                          IF r.tag = "Ok" THEN r.pos ELSE Position_new, moves)
  /\ UNCHANGED <<libVars, overflow_checks, gameVars, pf, searchVars>>

\* setboard <fen>
CmdSetboard ==
  /\ ~panicked
  /\ \E fen \in CmdFens : \E r \in {from_fen(fen, overflow_checks)} :
       /\ panicked' = (r.tag = "Panic")
       /\ pos' = IF r.tag = "Ok" THEN r.pos ELSE pos
       /\ cmd' = [name |-> "setboard", fen |-> fen, moves |-> <<>>,
                  unchanged |-> (r.tag = "Ok" => r.pos = pos), result |-> r.tag,
                  trail |-> <<>>, rets |-> <<>>]
  /\ UNCHANGED <<libVars, overflow_checks, gameVars, pf, searchVars>>

NextCmd == CmdPositionStartpos \/ CmdPositionFen \/ CmdSetboard

SpecCmd == InitCmd /\ [][NextCmd]_vars

\* the defects of a FEN string that the error handling is stated for
Split(s, sep) ==
  LET starts == {i \in 1..(Len(s) + 1) : i = 1 \/ s[i - 1] = sep}
      nth(k) == CHOOSE i \in starts : Cardinality({j \in starts : j < i}) = k - 1
      stop(i) == CHOOSE j \in i..(Len(s) + 1) :
                   /\ \A k \in i..(j - 1) : s[k] # sep
                   /\ (j = Len(s) + 1 \/ s[j] = sep)
  IN [k \in 1..Cardinality(starts) |-> SubSeq(s, nth(k), stop(nth(k)) - 1)]
FenField(fen, k) == IF Len(Split(fen, " ")) >= k THEN Split(fen, " ")[k] ELSE <<>>
PieceLetters == {"P", "N", "B", "R", "Q", "K", "p", "n", "b", "r", "q", "k"}
Count(s, c) == Cardinality({i \in 1..Len(s) : s[i] = c})
FileCount(row) ==
  Count(row, "1") + 2 * Count(row, "2") + 3 * Count(row, "3") + 4 * Count(row, "4")
  + 5 * Count(row, "5") + 6 * Count(row, "6") + 7 * Count(row, "7")
  + 8 * Count(row, "8") + Cardinality({i \in 1..Len(row) : row[i] \in PieceLetters})
BadPieceLetter(fen) ==
  \E i \in 1..Len(FenField(fen, 1)) :
    FenField(fen, 1)[i] \notin PieceLetters \cup {"1", "2", "3", "4", "5", "6", "7", "8", "/"}
BadSideToMove(fen) == FenField(fen, 2) \notin {<<"w">>, <<"b">>}
RankPastBoard(fen) ==
  \E k \in 1..Len(Split(FenField(fen, 1), "/")) :
    FileCount(Split(FenField(fen, 1), "/")[k]) > 8
MissingKing(fen) == Count(FenField(fen, 1), "K") = 0 \/ Count(FenField(fen, 1), "k") = 0
MalformedFen(fen) ==
  BadPieceLetter(fen) \/ BadSideToMove(fen) \/ RankPastBoard(fen) \/ MissingKing(fen)

\* C8: a position or setboard command with a malformed FEN (bad piece
\* letter, bad side-to-move token, a rank that runs past the board, missing
\* king) fails with a recoverable error, does not panic, and leaves the
\* engine's position exactly what it was before the command.
MalformedFenRejected ==
  (cmd.name \in {"position fen", "setboard"} /\ cmd.moves = <<>> /\ MalformedFen(cmd.fen))
    => /\ ~panicked
       /\ cmd.result = "Err"
       /\ cmd.unchanged

\* the move string s is the UCI notation of a legal move of p (the promotion
\* letter in either case)
DenotesLegalMove(p, s) ==
  \E mv \in SeqRange(generate_legal_moves(p)) :
    /\ Len(s) = Len(to_uci(mv))
    /\ \A i \in 1..Len(s) : to_ascii_lowercase(s[i]) = to_uci(mv)[i]

\* C9: a move string that does not denote a legal move of the position it is
\* played on (too short, unknown square, illegal move, missing or wrong
\* promotion letter) makes make_uci_move return None and leaves the position,
\* with its side to move, clocks and hash, unchanged.
IllegalMoveStringRejected ==
  \A i \in 1..Len(cmd.trail) :
    ~DenotesLegalMove(cmd.trail[i], cmd.moves[i])
      => /\ ~panicked
         /\ Len(cmd.rets) >= i
         /\ cmd.rets[i] = "None"
         /\ (IF i < Len(cmd.trail) THEN cmd.trail[i + 1] ELSE pos) = cmd.trail[i]

(***************************************************************************)
(* search.rs and uci.rs: the loop of UciEngine::run, cmd_go, cmd_stop and  *)
(* the iterative deepening of Position::search.  The searches below the    *)
(* root are not followed: a child search visits some number of nodes and   *)
(* returns some score, and the root moves are tried in some order.         *)
(***************************************************************************)
MATE_BOUND == MATE_SCORE - MAX_PLY

abs(a) == IF a < 0 THEN -a ELSE a
\* i16 arithmetic: saturating_sub, saturating_add, saturating_mul, a sum that
\* wraps, and the division by 2 that rounds toward zero
saturating_sub(a, b) == Max(a - b, -32768)
saturating_add(a, b) == Min(a + b, 32767)
saturating_mul(a, b) == Max(Min(a * b, 32767), -32768)
wrapping_add(a, b) == ((a + b + 32768) % 65536) - 32768
Half(a) == IF a >= 0 THEN a \div 2 ELSE -((-a) \div 2)

\* SearchInfo::should_stop: the SearchInfo after the call, whose stopped is
\* also the value returned
should_stop(info, stop_flag, t) ==
  [info EXCEPT !.stopped = \/ @
                           \/ stop_flag
                           \/ (info.deadline # None /\ t >= info.deadline)]

\* a bug the limit could have: no buffer of 100 ms is kept
TimeLimitNoBuffer(go, side) ==
  IF go.movetime # None THEN go.movetime
  ELSE IF go.infinite THEN None
  ELSE LET our_time == IF side = White THEN go.wtime ELSE go.btime
           our_inc == IF side = White THEN go.winc ELSE go.binc
           inc == IF our_inc = None THEN 0 ELSE our_inc
           moves == IF go.movestogo = None THEN 30 ELSE go.movestogo
       IN IF our_time = None THEN None
          ELSE our_time \div Max(moves, 1) + (inc * 3) \div 4
\* cmd_go: the time limit in ms, None for a search without one
TimeLimit(go, side) ==
  IF go.movetime # None THEN go.movetime
  ELSE IF go.infinite THEN None
  ELSE LET our_time == IF side = White THEN go.wtime ELSE go.btime
           our_inc == IF side = White THEN go.winc ELSE go.binc
           inc == IF our_inc = None THEN 0 ELSE our_inc
           moves == IF go.movestogo = None THEN 30 ELSE go.movestogo
           base == our_time \div Max(moves, 1)
           total == base + (inc * 3) \div 4
       IN IF our_time = None THEN None ELSE Min(total, Max(our_time - 100, 0))

\* the head of an iteration: the full window, or from depth 5 on the window
\* of width delta around best_score
Window(s, depth) ==
  IF depth >= 5
  THEN [s EXCEPT !.depth = depth,
                 !.alpha = Max(saturating_sub(s.best_score, 25), -INFINITY),
                 !.beta = Min(saturating_add(s.best_score, 25), INFINITY),
                 !.delta = 25, !.pc = "call"]
  ELSE [s EXCEPT !.depth = depth, !.alpha = -INFINITY, !.beta = INFINITY,
                 !.delta = 25, !.pc = "call"]

\* Position::search up to its loop
SearchStart(time_limit, depth_limit, t) ==
  With([NoSearch EXCEPT
          !.info.deadline = IF time_limit = None THEN None ELSE t + time_limit,
          !.max_depth = IF depth_limit = None THEN MAX_PLY ELSE depth_limit,
          !.best_move = Move_NULL,
          !.best_score = -INFINITY],
       LAMBDA s : IF s.max_depth >= 1 THEN Window(s, 1) ELSE [s EXCEPT !.pc = "finish"])

\* the end of an iteration, after the inner loop
EndIteration(s) ==
  IF s.info.stopped THEN [s EXCEPT !.pc = "finish"]
  ELSE IF abs(s.best_score) >= MATE_BOUND THEN [s EXCEPT !.pc = "finish"]
  ELSE IF s.depth >= s.max_depth THEN [s EXCEPT !.pc = "finish"]
  ELSE Window(s, s.depth + 1)

\* the validation of PV[0]: a piece of the side to move stands on its source
ValidPv(p, pvline) ==
  /\ pvline # <<>>
  /\ p.board[from_sq(pvline[1])] # NoPiece
  /\ Piece_color(p.board[from_sq(pvline[1])]) = p.side_to_move

\* the inner loop after negamax has returned score and should_stop false:
\* a search again with another window, or the result of the iteration kept
SearchWindow(s, score, p) ==
  IF score <= s.alpha
  THEN [s EXCEPT !.beta = Half(wrapping_add(s.alpha, s.beta)),
                 !.alpha = Max(saturating_sub(score, s.delta), -INFINITY),
                 !.delta = saturating_mul(s.delta, 2), !.pc = "call"]
  ELSE IF score >= s.beta
  THEN [s EXCEPT !.beta = Min(saturating_add(score, s.delta), INFINITY),
                 !.delta = saturating_mul(s.delta, 2), !.pc = "call"]
  ELSE EndIteration([s EXCEPT
                       !.best_score = score,
                       !.best_move = IF ValidPv(p, s.current_pv) THEN s.current_pv[1] ELSE @,
                       !.pv = IF ValidPv(p, s.current_pv) THEN s.current_pv ELSE @])

\* a bug the driver could have: the result of negamax is used without asking
\* should_stop first
SearchIterateUnchecked(s, score, stop_flag, t, p) == SearchWindow(s, score, p)
\* the driver from the return of negamax on: `if info.should_stop() { break; }`
\* leaves both loops, as info.stopped is then set
SearchIterate(s, score, stop_flag, t, p) ==
  With(should_stop(s.info, stop_flag, t), LAMBDA info :
    IF info.stopped THEN EndIteration([s EXCEPT !.info = info])
    ELSE SearchWindow([s EXCEPT !.info = info], score, p))

\* the end of Position::search: best_move and PV[0] are validated once more,
\* and replaced by the first legal move if they fail
SearchResult(s, p) ==
  LET bad_move == ~is_null(s.best_move) /\ ~ValidPv(p, <<s.best_move>>)
      bad_pv == s.pv # <<>> /\ ~ValidPv(p, s.pv)
  IN IF bad_move \/ bad_pv
     THEN With(generate_legal_moves(p), LAMBDA moves :
            IF moves # <<>> THEN [s EXCEPT !.best_move = moves[1], !.pv = <<moves[1]>>]
            ELSE s)
     ELSE s

ROOT_FEN ==
  <<"8", "/", "8", "/", "8", "/", "8", "/", "8", "/", "2", "k", "5", "/", "8", "/",
    "K", "7", " ", "w", " ", "-", " ", "-", " ", "0", " ", "1">>
DRAWN_FEN ==
  <<"8", "/", "8", "/", "8", "/", "8", "/", "8", "/", "2", "k", "5", "/", "8", "/",
    "K", "7", " ", "w", " ", "-", " ", "-", " ", "1", "0", "0", " ", "6", "0">>
RootFens == {ROOT_FEN, DRAWN_FEN}
\* the deepest iteration followed, and the last tick of the clock
MaxSearchDepth == 5
MaxTime == 2
\* the go lines the GUI may write: go depth d, go movetime t, go wtime 100
\* btime 100, go infinite
GoLine == [NoLine EXCEPT !.name = "go"]
GoLines ==
  {[GoLine EXCEPT !.depth = d] : d \in {0, 1, MaxSearchDepth}}
  \cup {[GoLine EXCEPT !.movetime = t] : t \in {0, 1}}
  \cup {[GoLine EXCEPT !.wtime = 100, !.btime = 100], [GoLine EXCEPT !.infinite = TRUE]}
StopLine == [NoLine EXCEPT !.name = "stop"]
\* the nodes a child search may visit, the scores it may return to the root
\* (already negated), and the lines it may leave in local_pv
ChildNodes == {1, 4095}
ChildScores == {-30, 30}
ChildLines == {<<>>}

InitSearch ==
  /\ \E fen \in RootFens : pos = from_fen(fen, FALSE).pos
  /\ panicked = FALSE
  /\ overflow_checks = FALSE
  /\ book = 0
  /\ free = 0
  /\ nulls = 0
  /\ pf = PerftIdle
  /\ cmd = CmdNone
  /\ \E go \in GoLines : script \in {<<go>>, <<go, StopLine>>}
  /\ stdin = <<>>
  /\ stdout = <<>>
  /\ STOP_FLAG = FALSE
  /\ now = 0
  /\ search = NoSearch
  /\ node = NoNode
  /\ obs = NoObs
  /\ LibIdle

\* what the observer notes when negamax returns score to the driver, which then
\* calls should_stop: the iteration is complete if negamax was not stopped, no
\* stop is asked for at that moment, and the score is inside the window; and a
\* polling point has been passed
StopAsked == STOP_FLAG \/ (search.info.deadline # None /\ now >= search.info.deadline)
Observe(stopped, score, pvline) ==
  [obs EXCEPT
     !.completed = IF ~stopped /\ ~StopAsked /\ search.alpha < score /\ score < search.beta
                   THEN [n |-> @.n + 1, score |-> score, pv |-> pvline,
                         move |-> IF pvline = <<>> THEN Move_NULL ELSE pvline[1]]
                   ELSE @,
     !.polled = @ \/ obs.stop_arrived]

\* the GUI writes its next line
Arrive ==
  /\ script # <<>>
  /\ script' = Tail(script)
  /\ stdin' = Append(stdin, Head(script))
  /\ obs' = [obs EXCEPT !.stop_arrived =
               @ \/ (Head(script).name = "stop" /\ search.pc # "idle")]
  /\ UNCHANGED <<libVars, posVars, gameVars, pf, cmd, stdout, STOP_FLAG, now, search, node>>

\* a millisecond passes during a search
Tick ==
  /\ search.pc # "idle"
  /\ now < MaxTime
  /\ now' = now + 1
  /\ UNCHANGED <<libVars, posVars, gameVars, pf, cmd, script, stdin, stdout, STOP_FLAG, search,
                 node, obs>>

\* run reads "stop": cmd_stop
CmdStop ==
  /\ search.pc = "idle"
  /\ stdin # <<>>
  /\ Head(stdin).name = "stop"
  /\ stdin' = Tail(stdin)
  /\ STOP_FLAG' = TRUE
  /\ UNCHANGED <<libVars, posVars, gameVars, pf, cmd, script, stdout, now, search, node, obs>>

\* run reads "go ...": cmd_go up to the first call of negamax
CmdGo ==
  /\ search.pc = "idle"
  /\ stdin # <<>>
  /\ Head(stdin).name = "go"
  /\ stdin' = Tail(stdin)
  /\ STOP_FLAG' = FALSE
  /\ search' = SearchStart(TimeLimit(Head(stdin), pos.side_to_move),
                           Head(stdin).depth, now)
  /\ node' = NoNode
  /\ obs' = NoObs
  /\ UNCHANGED <<libVars, posVars, gameVars, pf, cmd, script, stdout, now>>

\* negamax returns score to the driver, with info and pvline for the SearchInfo
\* and the PV it leaves
Return(info, pvline, score) ==
  /\ search' = SearchIterate([search EXCEPT !.info = info, !.current_pv = pvline],
                             score, STOP_FLAG, now, pos)
  /\ obs' = Observe(info.stopped, score, pvline)

\* negamax is called at the root, and runs up to its loop over the moves
NegamaxRoot ==
  /\ search.pc = "call"
  /\ search.depth <= MaxSearchDepth
  /\ \E polled \in {search.info.nodes % 4096 = 0} :
     \E info \in {IF polled THEN should_stop(search.info, STOP_FLAG, now)
                  ELSE search.info} :
     \E entered \in {[info EXCEPT !.nodes = @ + 1]} :
       IF polled /\ info.stopped
       THEN Return(info, <<>>, 0) /\ node' = NoNode
       ELSE IF MATE_SCORE < search.beta /\ MATE_SCORE <= search.alpha
       THEN Return(entered, <<>>, search.alpha) /\ node' = NoNode
       ELSE IF pos.halfmove_clock >= 100
       THEN Return(entered, <<>>, 0) /\ node' = NoNode
       ELSE \E moves \in {generate_legal_moves(pos)} :
              IF moves = <<>>
              THEN /\ Return(entered, <<>>, IF is_in_check(pos) THEN -MATE_SCORE ELSE 0)
                   /\ node' = NoNode
              ELSE /\ search' = [search EXCEPT !.info = entered, !.current_pv = <<>>,
                                               !.pc = "moves"]
                   /\ node' = [alpha |-> search.alpha, best_score |-> -INFINITY,
                               left |-> SeqRange(moves)]
                   /\ obs' = [obs EXCEPT !.polled = @ \/ (polled /\ obs.stop_arrived)]
  /\ UNCHANGED <<libVars, posVars, gameVars, pf, cmd, script, stdin, stdout, STOP_FLAG, now>>

\* the first counter value from n on at which negamax polls should_stop
PollPoint(n) == IF n % 4096 = 0 THEN n ELSE n + 4096 - (n % 4096)

\* one turn of the loop over the root moves: the search of the child, then
\* the update of best_score, alpha and the PV, and the return at the end
ChildSearch ==
  /\ search.pc = "moves"
  /\ \E mv \in node.left : \E k \in ChildNodes : \E child \in ChildScores :
     \E local_pv \in ChildLines :
     \E polled \in {PollPoint(search.info.nodes) < search.info.nodes + k} :
     \E info \in {IF polled THEN should_stop(search.info, STOP_FLAG, now)
                  ELSE search.info} :
       IF info.stopped
       THEN /\ Return([info EXCEPT !.nodes = IF polled THEN PollPoint(@) ELSE @ + k],
                      search.current_pv, 0)
            /\ node' = node
       ELSE \E improved \in {child > node.best_score} :
            \E raised \in {improved /\ child > node.alpha} :
            \E pvline \in {IF raised /\ ValidPv(pos, <<mv>>) THEN <<mv>> \o local_pv
                           ELSE search.current_pv} :
            \E frame \in {[best_score |-> IF improved THEN child ELSE node.best_score,
                           alpha |-> IF raised THEN child ELSE node.alpha,
                           left |-> node.left \ {mv}]} :
              IF (raised /\ child >= search.beta) \/ frame.left = {}
              THEN /\ Return([info EXCEPT !.nodes = @ + k], pvline, frame.best_score)
                   /\ node' = frame
              ELSE /\ search' = [search EXCEPT !.info = [info EXCEPT !.nodes = @ + k],
                                               !.current_pv = pvline]
                   /\ node' = frame
                   /\ obs' = [obs EXCEPT !.polled = @ \/ (polled /\ obs.stop_arrived)]
  /\ UNCHANGED <<libVars, posVars, gameVars, pf, cmd, script, stdin, stdout, STOP_FLAG, now>>

\* search returns, and cmd_go prints bestmove
Bestmove ==
  /\ search.pc = "finish"
  /\ \E result \in {SearchResult(search, pos)} :
       /\ search' = [result EXCEPT !.pc = "idle"]
       /\ stdout' = Append(stdout, to_uci(result.best_move))
  /\ UNCHANGED <<libVars, posVars, gameVars, pf, cmd, script, stdin, STOP_FLAG, now, node, obs>>

NextSearch == Arrive \/ Tick \/ CmdStop \/ CmdGo \/ NegamaxRoot \/ ChildSearch \/ Bestmove

SpecSearch == InitSearch /\ [][NextSearch]_vars

\* C5: when a search has ended on a position that has a legal move, whatever
\* the time limit, the depth limit and the moment of the stop, the bestmove
\* line names a legal move of the root position, and so is never 0000.
BestMoveIsLegal ==
  (search.pc = "idle" /\ stdout # <<>> /\ generate_legal_moves(pos) # <<>>)
    => \E mv \in SeqRange(generate_legal_moves(pos)) : stdout[Len(stdout)] = to_uci(mv)

\* C6: when a search has been stopped, by the flag or by the deadline, the
\* best move, the score and the PV it returns are those of the last iteration
\* that completed with a score inside its window: nothing of the iteration or
\* of the aspiration re-search that was cut short is in them.
CompletedIterationKept ==
  (search.pc \in {"finish", "idle"} /\ search.info.stopped /\ obs.completed.n > 0)
    => /\ search.best_move = obs.completed.move
       /\ search.best_score = obs.completed.score
       /\ search.pv = obs.completed.pv
       /\ (search.pc = "idle" => stdout[Len(stdout)] = to_uci(obs.completed.move))

\* a search stopped inside an aspiration re-search of iteration 5, which left
\* a PV other than the one of iteration 4, has printed its bestmove
StoppedInReSearch ==
  /\ search.pc = "idle"
  /\ stdout # <<>>
  /\ search.info.stopped
  /\ obs.completed.n = 4
  /\ search.depth = 5
  /\ search.delta > 25
  /\ search.current_pv # <<>>
  /\ search.current_pv # search.pv

\* C7: once a stop line has arrived during a search, the polling points of
\* that search find the stop flag set, so that the search ends there.
StopObeyed == obs.polled => (STOP_FLAG /\ search.info.stopped)

(***************************************************************************)
(* The transposition table at work: the calls the engine and the search    *)
(* make on it (uci.rs: new, clear; search.rs: new_search, probe, store),   *)
(* and the use negamax makes of the entry it has probed.                   *)
(***************************************************************************)
\* the hashes <<hi, lo>> of the positions searched, and what is stored for them
TTHashes == {<<0, 0>>, <<1, 0>>, <<1, 2>>}
TTDepths == {1, 5, MAX_PLY}
TTScores == {100}
TTBounds == {Bound_Upper, Bound_Lower, Bound_Exact}
TTMoves == {Move_NULL, Move_quiet(12, 28), Move_quiet(52, 36)}
TTPlies == {2}
\* the numbers of searches run in a row without a store in between (a search
\* stopped at its first poll stores nothing), and how many such runs are followed
SearchRuns == {1, 255}
MaxRuns == 2
\* the calls of store followed
MaxStores == 2

\* search.rs, negamax: the TT move, Move::NULL unless the entry's move is null
\* or has a piece of the side to move on its source square
tt_move_of(p, tt_entry) ==
  IF tt_entry = NoEntry THEN Move_NULL
  ELSE IF is_null(tt_entry.best_move) THEN tt_entry.best_move
  ELSE IF ValidPv(p, <<tt_entry.best_move>>) THEN tt_entry.best_move
  ELSE Move_NULL

\* search.rs, negamax: the TT cutoff, the score returned or NoCutoff
NoCutoff == [tag |-> "none"]
tt_cutoff(tt_entry, depth, alpha, beta, ply, is_pv, is_root) ==
  IF is_pv \/ is_root \/ tt_entry = NoEntry THEN NoCutoff
  ELSE IF ~depth_ok(tt_entry, depth) THEN NoCutoff
  ELSE With(adjusted_score(tt_entry, ply), LAMBDA score :
         IF \/ tt_entry.bound = Bound_Exact
            \/ (tt_entry.bound = Bound_Lower /\ score >= beta)
            \/ (tt_entry.bound = Bound_Upper /\ score <= alpha)
         THEN [tag |-> "return", score |-> score]
         ELSE NoCutoff)

InitTT ==
  /\ pos = Position_new
  /\ panicked = FALSE
  /\ overflow_checks = FALSE
  /\ book = 0
  /\ free = 0
  /\ nulls = 0
  /\ pf = PerftIdle
  /\ cmd = CmdNone
  /\ SearchIdle
  /\ LibIdle

\* tt.store(hash, depth, best_score, bound, best_move, ply)
TTStore ==
  /\ ttobs.stores < MaxStores
  /\ \E hash \in TTHashes : \E depth \in TTDepths : \E score \in TTScores :
     \E bound \in TTBounds : \E best_move \in TTMoves : \E ply \in TTPlies :
       /\ tt' = store(tt, hash, depth, score, bound, best_move, ply)
       /\ ttop' = [name |-> "store", hash |-> hash, depth |-> depth, score |-> score,
                   bound |-> bound, best_move |-> best_move, ply |-> ply,
                   existing |-> tt.table[TT_index(tt, hash)], age |-> tt.age]
       /\ ttobs' = [ttobs EXCEPT !.stored = @ \cup {<<TT_index(tt, hash), hash[1]>>},
                                  !.stores = @ + 1]
  /\ UNCHANGED <<posVars, gameVars, pf, cmd, searchVars, call>>

RECURSIVE NewSearches(_, _)
NewSearches(t, k) ==
  IF k = 0 THEN t
  ELSE IF k % 2 = 1 THEN With(new_search(t), LAMBDA u : NewSearches(u, k - 1))
  ELSE With(NewSearches(t, k \div 2), LAMBDA u : NewSearches(u, k \div 2))
\* k searches in a row, each calling tt.new_search() once and storing nothing
TTNewSearch ==
  /\ ttobs.runs < MaxRuns
  /\ \E k \in SearchRuns :
       /\ tt' = NewSearches(tt, k)
       /\ ttop' = [name |-> "new_search", table |-> tt.table,
                   hashfull |-> hashfull(NewSearches(tt, k))]
       /\ ttobs' = [ttobs EXCEPT !.searches = @ + k, !.runs = @ + 1]
  /\ UNCHANGED <<posVars, gameVars, pf, cmd, searchVars, call>>

\* ucinewgame: tt.clear()
TTClear ==
  /\ tt' = TT_clear(tt)
  /\ ttop' = [name |-> "clear"]
  /\ ttobs' = [ttobs EXCEPT !.stored = {}]
  /\ UNCHANGED <<posVars, gameVars, pf, cmd, searchVars, call>>

\* tt.probe(hash)
TTProbe ==
  /\ \E hash \in TTHashes :
       ttop' = [name |-> "probe", hash |-> hash, ret |-> probe(tt, hash)]
  /\ UNCHANGED <<posVars, gameVars, pf, cmd, searchVars, call, tt, ttobs>>

\* negamax on pos below the root, outside the PV: the probe, the TT move and the
\* TT cutoff
TTNegamax ==
  /\ \E hash \in TTHashes : \E depth \in {1, 6} : \E tt_entry \in {probe(tt, hash)} :
       ttop' = [name |-> "negamax", entry |-> tt_entry,
                tt_move |-> tt_move_of(pos, tt_entry),
                cutoff |-> tt_cutoff(tt_entry, depth, -50, 50, 2, FALSE, FALSE)]
  /\ UNCHANGED <<posVars, gameVars, pf, cmd, searchVars, call, tt, ttobs>>

NextTT == TTStore \/ TTNewSearch \/ TTClear \/ TTProbe \/ TTNegamax

SpecTT == InitTT /\ [][NextTT]_vars

\* C11: store replaces the whole slot (key, move, mate-adjusted score, depth,
\* bound, current age) if and only if the stored key differs from the incoming
\* key, or the stored age differs from the table's age, or the incoming depth
\* is at least the stored depth, or the incoming bound is Exact; otherwise it
\* changes the move field alone, and only from a null to a non-null move.
StoreReplacesSlot ==
  ttop.name = "store" =>
    LET existing == ttop.existing
        slot == tt.table[TT_index(tt, ttop.hash)]
        replace == \/ existing.key # ttop.hash[1]
                   \/ existing.age # ttop.age
                   \/ ttop.depth >= existing.depth
                   \/ ttop.bound = Bound_Exact
    IN /\ tt.age = ttop.age
       /\ IF replace
          THEN slot = [key |-> ttop.hash[1], best_move |-> ttop.best_move,
                       score |-> score_to_tt(ttop.score, ttop.ply),
                       depth |-> ttop.depth, bound |-> ttop.bound, age |-> ttop.age]
          ELSE slot = [existing EXCEPT
                         !.best_move = IF ~is_null(ttop.best_move) /\ is_null(@)
                                       THEN ttop.best_move ELSE @]

\* C13: probe(h) returns an entry only if an entry with the verification key of
\* h has been stored in the slot of h since the table was made or last
\* cleared; a fresh or cleared table returns None for every hash.
ProbeOnlyStored ==
  (ttop.name = "probe" /\ ttop.ret # NoEntry)
    => <<TT_index(tt, ttop.hash), ttop.hash[1]>> \in ttobs.stored

\* C14: right after a call of new_search hashfull() is 0, and the entries of
\* the table are what they were, whatever the number of searches before.
NewSearchAgesEntries ==
  ttop.name = "new_search" => (ttop.hashfull = 0 /\ tt.table = ttop.table)

\* C15: when the entry probed at a node carries a non-null move whose source
\* square does not hold a piece of the side to move, the node goes on as after
\* a miss: no TT move for the ordering, and no score cutoff.
InvalidEntryIsMiss ==
  (/\ ttop.name = "negamax"
   /\ ttop.entry # NoEntry
   /\ ~is_null(ttop.entry.best_move)
   /\ ~ValidPv(pos, <<ttop.entry.best_move>>))
    => (ttop.tt_move = Move_NULL /\ ttop.cutoff = NoCutoff)

(***************************************************************************)
(* tt.rs: the mate score adjustment, called on scores and plies of the     *)
(* search: score_to_tt at store, score_from_tt at adjusted_score           *)
(***************************************************************************)
ScoreBand == 3
\* the scores around which the adjustment changes, and the ends of the range
ScoreCentres ==
  {-INFINITY, -MATE_SCORE, -(MATE_SCORE - MAX_PLY), 0, MATE_SCORE - MAX_PLY,
   MATE_SCORE, INFINITY}
ScoreArgs ==
  {s \in UNION {(c - ScoreBand)..(c + ScoreBand) : c \in ScoreCentres} :
     abs(s) <= INFINITY}
PlyArgs == 0..MAX_PLY

InitScore ==
  /\ pos = Position_new
  /\ panicked = FALSE
  /\ overflow_checks = FALSE
  /\ book = 0
  /\ free = 0
  /\ nulls = 0
  /\ pf = PerftIdle
  /\ cmd = CmdNone
  /\ SearchIdle
  /\ tt = TranspositionTable_new(NumEntries)
  /\ ttop = NoOp
  /\ ttobs = NoTTObs
  /\ \E score \in ScoreArgs : \E ply \in PlyArgs :
       call = [fn |-> "score_to_tt", score |-> score, ply |-> ply, stored |-> 0,
               ret |-> 0, overflowed |-> FALSE]

\* store: score: TTEntry::score_to_tt(score, ply)
ScoreToTT ==
  /\ call.fn = "score_to_tt"
  /\ call' = [call EXCEPT !.fn = "score_from_tt",
                          !.stored = score_to_tt(call.score, call.ply),
                          !.overflowed = score_to_tt_overflows(call.score, call.ply)]
  /\ UNCHANGED <<posVars, gameVars, pf, cmd, searchVars, ttVars>>

\* adjusted_score: TTEntry::score_from_tt(self.score, ply), at the same ply
ScoreFromTT ==
  /\ call.fn = "score_from_tt"
  /\ call' = [call EXCEPT !.fn = "returned",
                          !.ret = score_from_tt(call.stored, call.ply),
                          !.overflowed = @ \/ score_from_tt_overflows(call.stored, call.ply)]
  /\ UNCHANGED <<posVars, gameVars, pf, cmd, searchVars, ttVars>>

NextScore == ScoreToTT \/ ScoreFromTT
SpecScore == InitScore /\ [][NextScore]_vars

\* C12: score_from_tt(score_to_tt(s, ply), ply) = s for every score s with
\* |s| <= 32000 and every ply of 0..128, and neither conversion leaves the
\* range of an i16.
MateScoreRoundTrip ==
  /\ call.fn \in {"score_from_tt", "returned"} => ~call.overflowed
  /\ call.fn = "returned" => call.ret = call.score
\* a mate score stored at a ply above 0, changed by the store and read back
MateScoreAdjusted ==
  /\ call.fn = "returned"
  /\ call.score >= MATE_SCORE - MAX_PLY
  /\ call.ply > 0
  /\ call.stored = call.score + call.ply
  /\ call.ret = call.score

\* the fields of a Position that C17 names
PositionFields(p) ==
  <<p.board, p.pieces, p.occupied, p.all_occupied, p.side_to_move, p.castling,
    p.en_passant, p.halfmove_clock, p.fullmove_number, p.hash, p.king_sq,
    p.checkers>>

\* C17: for every position P reached from the start position by legal moves,
\* from_fen(to_fen(P)) is Ok and its position equals P in placement, side to
\* move, castling rights, en passant square, halfmove clock, fullmove number,
\* hash, king squares and checkers.
FenRoundTrip ==
  (~panicked /\ nulls = 0) =>
    \E r \in {from_fen(to_fen(pos), overflow_checks)} :
      /\ r.tag = "Ok"
      /\ PositionFields(r.pos) = PositionFields(pos)

(***************************************************************************)
(* bitboard.rs: a lookup of the knight attack table                        *)
(***************************************************************************)
InitKnight ==
  /\ pos = Position_new
  /\ panicked = FALSE
  /\ overflow_checks = FALSE
  /\ book = 0
  /\ free = 0
  /\ nulls = 0
  /\ pf = PerftIdle
  /\ cmd = CmdNone
  /\ SearchIdle
  /\ tt = TranspositionTable_new(NumEntries)
  /\ ttop = NoOp
  /\ ttobs = NoTTObs
  /\ \E sq \in Squares : call = [fn |-> "knight_attacks", sq |-> sq, ret |-> EMPTY]

\* knight_attacks(sq): KNIGHT_ATTACKS[sq.index()]
KnightAttacks ==
  /\ call.fn = "knight_attacks"
  /\ call' = [call EXCEPT !.fn = "returned", !.ret = knight_attacks(call.sq)]
  /\ UNCHANGED <<posVars, gameVars, pf, cmd, searchVars, ttVars>>

NextKnight == KnightAttacks
SpecKnight == InitKnight /\ [][NextKnight]_vars

\* C19: KNIGHT_ATTACKS[s] is the set of the squares of the board at the file
\* and rank offsets (+-1, +-2) and (+-2, +-1) from s, no more and no less:
\* eight squares for e4, two for a corner.
KnightAttacksExact ==
  call.fn = "returned" =>
    call.ret = {t \in Squares :
                  {abs_diff(file(t), file(call.sq)), abs_diff(rank(t), rank(call.sq))}
                    = {1, 2}}

(***************************************************************************)
(* make_move.rs: make_move on positions with castling rights               *)
(***************************************************************************)
CASTLE_FEN ==
  <<"r", "3", "k", "2", "r", "/", "8", "/", "8", "/", "8", "/", "8", "/", "8", "/",
    "8", "/", "R", "3", "K", "2", "R", " ", "w", " ", "K", "Q", "k", "q", " ", "-",
    " ", "0", " ", "1">>
CastleFens == {CASTLE_FEN, KIWIPETE}
MaxCastleMoves == 2

InitCastle ==
  /\ \E fen \in CastleFens : pos = from_fen(fen, FALSE).pos
  /\ panicked = FALSE
  /\ overflow_checks = FALSE
  /\ book = OffBook
  /\ free = 0
  /\ nulls = 0
  /\ pf = PerftIdle
  /\ cmd = CmdNone
  /\ SearchIdle
  /\ tt = TranspositionTable_new(NumEntries)
  /\ ttop = NoOp
  /\ ttobs = NoTTObs
  /\ call = NoCall

\* self.make_move(mv) on a move of the legal move list
CastleMove ==
  /\ ~panicked
  /\ free < MaxCastleMoves
  /\ \E mv \in SeqRange(generate_legal_moves(pos)) :
       /\ MakeMove(mv)
       /\ call' = [fn |-> "make_move", mv |-> mv, castling |-> pos.castling,
                   us |-> pos.side_to_move]
  /\ free' = free + 1
  /\ UNCHANGED <<overflow_checks, book, nulls, pf, cmd, searchVars, ttVars>>

NextCastle == CastleMove
SpecCastle == InitCastle /\ [][NextCastle]_vars

\* the king's home square and the rook's home square of a castling right
HomeSquares(right) ==
  CASE right = 1 -> {E1, H1}
    [] right = 2 -> {E1, A1}
    [] right = 4 -> {E8, H8}
    [] right = 8 -> {E8, A8}

\* C20: make_move never adds a castling right; it removes a right exactly
\* when the source or the destination of the move is the king's home square
\* of that side or the home square of the rook of that right; after a
\* castling move the side that castled has neither right.
CastlingRightsOnlyShrink ==
  (call.fn = "make_move" /\ ~panicked) =>
    /\ pos.castling \subseteq call.castling
    /\ \A right \in call.castling :
         (right \notin pos.castling)
           <=> ({from_sq(call.mv), to_sq(call.mv)} \cap HomeSquares(right) # {})
    /\ is_castle(call.mv)
         => (pos.castling \cap (kingside(call.us) \cup queenside(call.us)) = {})
\* White has castled short with all four rights, and Black keeps both of its own
CastledKingside ==
  /\ call.fn = "make_move"
  /\ call.mv = Move_new(E1, G1, FLAG_KING_CASTLE)
  /\ call.castling = CastlingRights_ALL
  /\ pos.castling = BLACK_KINGSIDE \cup BLACK_QUEENSIDE
  /\ pos.board[G1] = Piece_new(White, King)
  /\ pos.board[F1] = Piece_new(White, Rook)
(***************************************************************************)
(* see.rs: static exchange evaluation                                      *)
(***************************************************************************)
SEE_VALUES == <<100, 300, 300, 500, 900, 10000>>

\* Position::attackers_to
attackers_to(p, sq, occupied) ==
  LET knights == piece_bb(p, White, Knight) \cup piece_bb(p, Black, Knight)
      kings == piece_bb(p, White, King) \cup piece_bb(p, Black, King)
      diag_sliders == diagonal_sliders(p, White) \cup diagonal_sliders(p, Black)
      orth_sliders == orthogonal_sliders(p, White) \cup orthogonal_sliders(p, Black)
  IN (pawn_attacks(Black, sq) \cap piece_bb(p, White, Pawn))
     \cup (pawn_attacks(White, sq) \cap piece_bb(p, Black, Pawn))
     \cup (knight_attacks(sq) \cap knights)
     \cup (king_attacks(sq) \cap kings)
     \cup (bishop_attacks(sq, occupied) \cap diag_sliders)
     \cup (rook_attacks(sq, occupied) \cap orth_sliders)

diagonal_sliders_all(p) == diagonal_sliders(p, White) \cup diagonal_sliders(p, Black)
orthogonal_sliders_all(p) == orthogonal_sliders(p, White) \cup orthogonal_sliders(p, Black)

\* find_lva: <<square, piece type>> of the least valuable piece of attackers
find_lva(p, attackers) ==
  LET pt == CHOOSE t \in PieceTypes :
              /\ (piece_bb(p, White, t) \cup piece_bb(p, Black, t)) \cap attackers # EMPTY
              /\ \A u \in PieceTypes :
                   u < t => (piece_bb(p, White, u) \cup piece_bb(p, Black, u))
                              \cap attackers = EMPTY
  IN <<lsb((piece_bb(p, White, pt) \cup piece_bb(p, Black, pt)) \cap attackers), pt>>

\* the attackers after the piece on attacker_sq has captured: it leaves, and
\* the sliders behind it join
XrayAttackers(p, to, occupied, attackers, attacker_type) ==
  attackers
  \cup (IF attacker_type \in {Pawn, Bishop, Queen}
        THEN (bishop_attacks(to, occupied) \cap diagonal_sliders_all(p)) \cap occupied
        ELSE EMPTY)
  \cup (IF attacker_type \in {Rook, Queen}
        THEN (rook_attacks(to, occupied) \cap orthogonal_sliders_all(p)) \cap occupied
        ELSE EMPTY)

\* the loop of see_ge; gain[i + 1] is gain[i] of the code and depth is
\* Len(gain) - 1 after the increment.  The result is the gain array at the break.
RECURSIVE SeeLoop(_, _, _, _, _, _, _, _)
SeeLoop(p, to, threshold, occupied, attackers, side_to_move, gain, piece_on_sq) ==
  LET g == Append(gain, SEE_VALUES[piece_on_sq + 1] - gain[Len(gain)])
      stm_attackers == attackers \cap p.occupied[side_to_move]
  IN IF Max(-gain[Len(gain)], g[Len(g)]) < threshold THEN g
     ELSE IF stm_attackers = EMPTY THEN g
     ELSE LET lva == find_lva(p, stm_attackers)
              occ == occupied \ {lva[1]}
          IN SeeLoop(p, to, threshold, occ,
                     XrayAttackers(p, to, occ, attackers \ {lva[1]}, lva[2]),
                     flip(side_to_move), g, lva[2])

\* "while depth > 1": the gain array negamaxed down to gain[0]
RECURSIVE SeeNegamax(_, _)
SeeNegamax(gain, depth) ==
  IF depth > 1
  THEN SeeNegamax([gain EXCEPT ![depth - 1] = -Max(-gain[depth - 1], gain[depth])],
                  depth - 1)
  ELSE gain

\* the value of the piece captured by mv, with the promotion bonus; None for
\* a capture of an empty square
SeeFirstValue(p, mv) ==
  LET captured == IF ~is_capture(mv) THEN 0
                  ELSE IF is_en_passant(mv) THEN SEE_VALUES[Pawn + 1]
                  ELSE IF piece_at(p, to_sq(mv)) = NoPiece THEN None
                  ELSE SEE_VALUES[Piece_type(piece_at(p, to_sq(mv))) + 1]
  IN IF captured = None THEN None
     ELSE IF is_promotion(mv)
          THEN captured + (SEE_VALUES[promotion_piece(mv) + 1] - SEE_VALUES[Pawn + 1])
          ELSE captured

\* occupancy without the moving piece and without a pawn taken en passant
SeeOccupied(p, mv) ==
  IF is_en_passant(mv)
  THEN (p.all_occupied \ {from_sq(mv)})
         \ {to_sq(mv) + (IF p.side_to_move = White THEN -8 ELSE 8)}
  ELSE p.all_occupied \ {from_sq(mv)}

\* Position::see_ge
see_ge(p, mv, threshold) ==
  LET value == SeeFirstValue(p, mv)
      attacker == piece_at(p, from_sq(mv))
  IN IF value = None \/ attacker = NoPiece THEN FALSE
     ELSE IF value - SEE_VALUES[Piece_type(attacker) + 1] >= threshold THEN TRUE
     ELSE LET occupied == SeeOccupied(p, mv)
              attackers == attackers_to(p, to_sq(mv), occupied) \cap occupied
              gain == SeeLoop(p, to_sq(mv), threshold, occupied, attackers,
                              flip(p.side_to_move), <<value>>, Piece_type(attacker))
          IN SeeNegamax(gain, Len(gain) - 1)[1] >= threshold

SEE_QXP ==
  <<"4", "k", "3", "/", "8", "/", "4", "p", "3", "/", "8", "/", "8", "/", "4", "Q",
    "3", "/", "8", "/", "4", "K", "3", " ", "w", " ", "-", " ", "-", " ", "0", " ",
    "1">>
SEE_QXP_DEFENDED ==
  <<"4", "k", "3", "/", "4", "r", "3", "/", "4", "p", "3", "/", "8", "/", "8", "/",
    "4", "Q", "3", "/", "8", "/", "4", "K", "3", " ", "w", " ", "-", " ", "-", " ",
    "0", " ", "1">>
SEE_RXR ==
  <<"3", "r", "k", "3", "/", "8", "/", "8", "/", "8", "/", "8", "/", "8", "/", "8",
    "/", "R", "2", "R", "K", "3", " ", "w", " ", "-", " ", "-", " ", "0", " ", "1">>
SEE_XRAY ==
  <<"4", "k", "3", "/", "2", "p", "5", "/", "3", "r", "4", "/", "8", "/", "8", "/",
    "8", "/", "3", "R", "4", "/", "3", "R", "K", "3", " ", "w", " ", "-", " ", "-",
    " ", "0", " ", "1">>
SEE_PROMOTION ==
  <<"3", "r", "k", "3", "/", "4", "P", "3", "/", "8", "/", "8", "/", "8", "/", "8",
    "/", "8", "/", "4", "K", "3", " ", "w", " ", "-", " ", "-", " ", "0", " ", "1">>
SEE_BLACK ==
  <<"4", "k", "3", "/", "8", "/", "8", "/", "3", "q", "4", "/", "4", "P", "3", "/",
    "3", "P", "4", "/", "8", "/", "4", "K", "3", " ", "b", " ", "-", " ", "-", " ",
    "0", " ", "1">>
SeeFens == {SEE_QXP, SEE_QXP_DEFENDED, SEE_RXR, SEE_XRAY, SEE_PROMOTION, SEE_BLACK}
SeeThresholds == {-900, -100, 0, 1, 100, 101, 300, 500}

InitSee ==
  /\ \E fen \in SeeFens : pos = from_fen(fen, FALSE).pos
  /\ panicked = FALSE
  /\ overflow_checks = FALSE
  /\ book = OffBook
  /\ free = 0
  /\ nulls = 0
  /\ pf = PerftIdle
  /\ cmd = CmdNone
  /\ SearchIdle
  /\ tt = TranspositionTable_new(NumEntries)
  /\ ttop = NoOp
  /\ ttobs = NoTTObs
  /\ \E mv \in SeqRange(generate_legal_moves(pos)) : \E threshold \in SeeThresholds :
       /\ is_capture(mv)
       /\ call = [fn |-> "see_ge", mv |-> mv, threshold |-> threshold, ret |-> FALSE]

\* self.see_ge(mv, threshold)
SeeGe ==
  /\ call.fn = "see_ge"
  /\ call' = [call EXCEPT !.fn = "returned",
                          !.ret = see_ge(pos, call.mv, call.threshold)]
  /\ UNCHANGED <<posVars, gameVars, pf, cmd, searchVars, ttVars>>

NextSee == SeeGe
SpecSee == InitSee /\ [][NextSee]_vars

\* what the side to move wins at best by capturing on the square with its
\* least valuable attacker, the other side answering the same way, when each
\* side may also stop: 0 without an attacker
RECURSIVE ExchangeValue(_, _, _, _, _, _)
ExchangeValue(p, to, occupied, attackers, side_to_move, piece_on_sq) ==
  LET stm_attackers == attackers \cap p.occupied[side_to_move]
  IN IF stm_attackers = EMPTY THEN 0
     ELSE LET lva == find_lva(p, stm_attackers)
              occ == occupied \ {lva[1]}
          IN Max(0, SEE_VALUES[piece_on_sq + 1]
                      - ExchangeValue(p, to, occ,
                                      XrayAttackers(p, to, occ, attackers \ {lva[1]}, lva[2]),
                                      flip(side_to_move), lva[2]))

\* C18: see_ge(mv, threshold) is true exactly when the minimax value of the
\* capture sequence on the destination of mv (each side capturing with its
\* least valuable attacker, x-rays included, and free to stop) is at least
\* threshold.
SeeGeIsMinimax ==
  call.fn = "returned" =>
    LET occupied == SeeOccupied(pos, call.mv)
        to == to_sq(call.mv)
    IN call.ret
         <=> (SeeFirstValue(pos, call.mv)
                - ExchangeValue(pos, to, occupied,
                                attackers_to(pos, to, occupied) \cap occupied,
                                flip(pos.side_to_move),
                                Piece_type(piece_at(pos, from_sq(call.mv))))
              >= call.threshold)

(***************************************************************************)
(* search.rs: negamax below the root.  call.stack holds the calls of       *)
(* negamax that have not returned, the root first; call.ret what the last  *)
(* call has returned and left in the vector it was given.  The entry a     *)
(* probe finds, the static evaluation and the result of qsearch are drawn  *)
(* from small sets, and the moves are tried in the order of the move list. *)
(* A search followed here visits fewer than 2048 nodes, so that only the   *)
(* first node polls should_stop: info.nodes is kept as 0 or 1.             *)
(***************************************************************************)
PV_FEN ==
  <<"k", "7", "/", "8", "/", "8", "/", "8", "/", "8", "/", "8", "/", "8", "/", "7",
    "K", " ", "b", " ", "-", " ", "-", " ", "0", " ", "1">>
PvFens == {PV_FEN}
MaxPvDepth == 3
QScores == {-30, 30}
StaticEvals == {0, 110}
PvEntries ==
  {NoEntry}
  \cup {[key |-> 0, best_move |-> Move_NULL, score |-> score, depth |-> depth,
         bound |-> bound, age |-> 0] :
          score \in QScores, depth \in {0, MaxPvDepth},
          bound \in {Bound_Upper, Bound_Lower, Bound_Exact}}

\* ln_approx(x) * 12, and LMR_TABLE[depth][moves] = (0.75 + ln * ln / 2.25) as i32
ln_approx12(x) ==
  LET t == x - 1 IN 12 * t - 6 * t * t + 4 * t * t * t - 3 * t * t * t * t
TruncDiv(a, b) == IF a >= 0 THEN a \div b ELSE -((-a) \div b)
I32_MAX == 2147483647
\* (a * b + add) \div 324 for a, b >= 0, saturated at I32_MAX as the cast of
\* an f64 to i32 saturates; the product is never formed as one number
SaturatingQuotient(a, b, add) ==
  LET q == a \div 324
      r == a % 324
      low == r * (b \div 324) + (r * (b % 324) + add) \div 324
  IN IF q > 0 /\ b > I32_MAX \div q THEN I32_MAX
     ELSE IF low >= 0 /\ q * b > I32_MAX - low THEN I32_MAX
     ELSE q * b + low
LMR_TABLE(depth, moves) ==
  IF depth < 1 \/ moves < 1 THEN 0
  ELSE LET a == ln_approx12(depth)
           b == ln_approx12(moves)
       IN IF a = 0 \/ b = 0 \/ (a > 0) = (b > 0)
          THEN SaturatingQuotient(Max(a, -a), Max(b, -b), 243)
          ELSE -Max(SaturatingQuotient(Max(a, -a), Max(b, -b), -243), 0)

\* negamax: `r += 1` on the table's value overflows the i32
LmrPanics(depth, moves_searched, is_pv) ==
  ~is_pv /\ LMR_TABLE(Min(depth, 63), Min(moves_searched, 63)) = I32_MAX
\* negamax: the reduction of a late quiet move, `r += 1` wrapping
LmrReduction(depth, moves_searched, is_pv) ==
  LET t == LMR_TABLE(Min(depth, 63), Min(moves_searched, 63))
      r == IF is_pv THEN t ELSE IF t = I32_MAX THEN -I32_MAX - 1 ELSE t + 1
  IN Min(r, depth - 1)

\* negamax: the late move reduction of a move
LmrApplies(moves_searched, depth, tactical, in_check, gives_check) ==
  /\ moves_searched >= 4
  /\ depth >= 3
  /\ ~tactical
  /\ ~in_check
  /\ ~gives_check
Reduction(f, mv, new_pos) ==
  IF LmrApplies(f.moves_searched, f.depth, is_tactical(mv), f.in_check,
                is_in_check(new_pos))
  THEN LmrReduction(f.depth, f.moves_searched, f.is_pv)
  ELSE 0

NoRet == [tag |-> "none"]
\* a call of negamax at its entry, with an empty vector for its PV
NewFrame(p, depth, ply, alpha, beta, is_pv) ==
  [stage |-> "enter", p |-> p, depth |-> depth, ply |-> ply, alpha |-> alpha,
   beta |-> beta, is_pv |-> is_pv, in_check |-> FALSE, moves |-> <<>>, i |-> 1,
   moves_searched |-> 0, best_score |-> -INFINITY, local_pv |-> <<>>, pv |-> <<>>,
   called |-> "none", reduction |-> 0]

Top == call.stack[Len(call.stack)]
\* the top call goes on as frame f
Continue(f) ==
  call' = [call EXCEPT !.stack = [@ EXCEPT ![Len(@)] = f], !.ret = NoRet]
\* the top call goes on as frame f and calls negamax: child is the new call
Call(f, child) ==
  call' = [call EXCEPT !.stack = Append([@ EXCEPT ![Len(@)] = f], child),
                       !.ret = NoRet]
\* the top call returns score and leaves pvline in its vector
ReturnScore(score, pvline) ==
  call' = [call EXCEPT !.stack = SubSeq(@, 1, Len(@) - 1),
                       !.ret = [tag |-> "ret", score |-> score, pv |-> pvline]]

\* negamax from the move generation to the loop over the moves
MoveLoop(f) ==
  \E moves \in {generate_legal_moves(f.p)} :
    IF moves = <<>>
    THEN ReturnScore(IF f.in_check THEN -(MATE_SCORE - f.ply) ELSE 0, f.pv)
    ELSE Continue([f EXCEPT !.stage = "pick", !.moves = moves, !.i = 1,
                            !.moves_searched = 0, !.best_score = -INFINITY,
                            !.local_pv = <<>>])

\* null move pruning applies
NullMoveApplies(f, static_eval) ==
  /\ ~f.is_pv
  /\ ~f.in_check
  /\ f.depth >= 3
  /\ static_eval >= f.beta
  /\ (piece_bb(f.p, f.p.side_to_move, Knight) \cup piece_bb(f.p, f.p.side_to_move, Bishop)
        \cup piece_bb(f.p, f.p.side_to_move, Rook)
        \cup piece_bb(f.p, f.p.side_to_move, Queen)) # EMPTY

\* negamax from the poll to the move generation, for one probed entry, one
\* static evaluation and one qsearch result: the score returned, the null
\* move search, or the loop over the moves
EnterOutcome(f, in_check, depth, tt_entry, eval, qscore) ==
  LET cutoff == tt_cutoff(tt_entry, f.depth, f.alpha, f.beta, f.ply, f.is_pv, f.ply = 0)
      static_eval == IF in_check THEN -INFINITY ELSE eval
  IN IF MATE_SCORE - f.ply < f.beta /\ MATE_SCORE - f.ply <= f.alpha
     THEN [tag |-> "return", score |-> f.alpha]
     ELSE IF f.p.halfmove_clock >= 100 THEN [tag |-> "return", score |-> 0]
     ELSE IF cutoff # NoCutoff THEN [tag |-> "return", score |-> cutoff.score]
     ELSE IF f.ply >= MAX_PLY THEN [tag |-> "return", score |-> eval]
     ELSE IF f.depth <= 0 THEN [tag |-> "return", score |-> qscore]
     ELSE IF ~f.is_pv /\ ~in_check /\ depth <= 7 /\ static_eval - 80 * depth >= f.beta
     THEN [tag |-> "return", score |-> static_eval - 80 * depth]
     ELSE IF NullMoveApplies([f EXCEPT !.in_check = in_check, !.depth = depth],
                             static_eval)
     THEN [tag |-> "nullmove", score |-> 0]
     ELSE [tag |-> "loop", score |-> 0]

\* negamax from its entry to the move generation
NodeEnter ==
  /\ call.fn = "search"
  /\ call.stack # <<>>
  /\ Top.stage = "enter"
  /\ \E f \in {Top} :
     \E polled \in {search.info.nodes % 4096 = 0} :
     \E info \in {IF polled THEN should_stop(search.info, STOP_FLAG, now)
                  ELSE search.info} :
       IF polled /\ info.stopped
       THEN /\ search' = [search EXCEPT !.info = info]
            /\ ReturnScore(0, f.pv)
       ELSE /\ search' = [search EXCEPT !.info = [info EXCEPT !.nodes = 1]]
            /\ \E in_check \in {is_in_check(f.p)} :
               \E depth \in {IF in_check /\ f.ply < MAX_PLY \div 2
                             THEN f.depth + 1 ELSE f.depth} :
               \E g \in {[f EXCEPT !.in_check = in_check, !.depth = depth]} :
               \E outcome \in {EnterOutcome(f, in_check, depth, tt_entry, eval, qscore) :
                                 tt_entry \in PvEntries, eval \in StaticEvals,
                                 qscore \in QScores} :
                 CASE outcome.tag = "return" -> ReturnScore(outcome.score, f.pv)
                   [] outcome.tag = "nullmove" ->
                        Call([g EXCEPT !.stage = "wait", !.called = "nullmove"],
                             NewFrame(make_null_move(f.p), depth - 1 - (3 + depth \div 4),
                                      f.ply + 1, -f.beta, -f.beta + 1, FALSE))
                   [] outcome.tag = "loop" -> MoveLoop(g)
  /\ UNCHANGED <<posVars, gameVars, pf, cmd, ttVars, script, stdin, stdout, STOP_FLAG,
                 now, node, obs>>

\* the head of a turn of the loop over the moves: the end of the loop, the
\* SEE pruning, or the first search of the move
MovePick ==
  /\ call.fn = "search"
  /\ call.stack # <<>>
  /\ Top.stage = "pick"
  /\ \E f \in {Top} :
       IF f.i > Len(f.moves) THEN ReturnScore(f.best_score, f.pv)
       ELSE \E mv \in {f.moves[f.i]} :
         IF ~f.is_pv /\ f.moves_searched >= 2 /\ is_capture(mv) /\ ~see_ge(f.p, mv, 0)
         THEN Continue([f EXCEPT !.i = @ + 1])
         ELSE \E new_pos \in {make_move(f.p, mv)} :
              \E reduction \in {Reduction(f, mv, new_pos)} :
                IF f.moves_searched = 0
                THEN Call([f EXCEPT !.stage = "wait", !.called = "first",
                                    !.reduction = reduction, !.local_pv = <<>>],
                          NewFrame(new_pos, f.depth - 1, f.ply + 1, -f.beta, -f.alpha,
                                   f.is_pv))
                ELSE Call([f EXCEPT !.stage = "wait", !.called = "null",
                                    !.reduction = reduction],
                          NewFrame(new_pos, f.depth - 1 - reduction, f.ply + 1,
                                   -f.alpha - 1, -f.alpha, FALSE))
  /\ UNCHANGED <<posVars, gameVars, pf, cmd, ttVars, searchVars>>

\* negamax after the searches of a move: `if info.stopped { return 0; }`
StoppedAfterMoveIgnored(info) == FALSE
StoppedAfterMove(info) == info.stopped

\* the full window re-search follows the null window searches of a move
NeedsFullSearchNever(score, alpha, beta) == FALSE
NeedsFullSearch(score, alpha, beta) == score > alpha /\ score < beta

\* the end of a turn of the loop: best_score, alpha and the PV, the beta
\* cutoff, and the return after the last move
MoveDone(f, score, from_full) ==
  IF StoppedAfterMove(search.info) THEN ReturnScore(0, f.pv)
  ELSE \E mv \in {f.moves[f.i]} :
       \E improved \in {score > f.best_score} :
       \E raised \in {improved /\ score > f.alpha} :
       \E g \in {[f EXCEPT !.stage = "pick", !.i = @ + 1,
                           !.moves_searched = @ + 1,
                           !.best_score = IF improved THEN score ELSE @,
                           !.alpha = IF raised THEN score ELSE @,
                           !.pv = IF raised /\ ValidPv(f.p, <<mv>>)
                                  THEN <<mv>> \o f.local_pv ELSE @]} :
         IF raised /\ score >= f.beta
         THEN call' = [call EXCEPT
                         !.stack = SubSeq(@, 1, Len(@) - 1),
                         !.ret = [tag |-> "ret", score |-> g.best_score, pv |-> g.pv],
                         !.stale = @ \/ (~from_full /\ f.local_pv # <<>>)]
         ELSE call' = [call EXCEPT
                         !.stack = [@ EXCEPT ![Len(@)] = g],
                         !.ret = NoRet,
                         !.stale = @ \/ (raised /\ ~from_full /\ f.local_pv # <<>>)]

\* a search of the current move has returned
SearchAgain(f, score) ==
  IF NeedsFullSearch(score, f.alpha, f.beta)
  THEN call' = [call EXCEPT
                  !.stack = Append([@ EXCEPT ![Len(@)] =
                                      [f EXCEPT !.called = "full", !.local_pv = <<>>]],
                                   NewFrame(make_move(f.p, f.moves[f.i]), f.depth - 1,
                                            f.ply + 1, -f.beta, -f.alpha, TRUE)),
                  !.ret = NoRet]
  ELSE MoveDone(f, score, FALSE)

MoveResume ==
  /\ call.fn = "search"
  /\ call.stack # <<>>
  /\ Top.stage = "wait"
  /\ call.ret # NoRet
  /\ \E f \in {Top} : \E score \in {-call.ret.score} :
       CASE f.called = "first" ->
              MoveDone([f EXCEPT !.local_pv = call.ret.pv], score, TRUE)
         [] f.called = "full" ->
              MoveDone([f EXCEPT !.local_pv = call.ret.pv], score, TRUE)
         [] f.called = "null" ->
              IF score > f.alpha /\ f.reduction > 0
              THEN call' = [call EXCEPT
                              !.stack = Append([@ EXCEPT ![Len(@)] =
                                                  [f EXCEPT !.called = "lmr"]],
                                               NewFrame(make_move(f.p, f.moves[f.i]),
                                                        f.depth - 1, f.ply + 1,
                                                        -f.alpha - 1, -f.alpha, FALSE)),
                              !.ret = NoRet]
              ELSE SearchAgain(f, score)
         [] f.called = "lmr" -> SearchAgain(f, score)
         [] f.called = "nullmove" ->
              IF search.info.stopped THEN ReturnScore(0, f.pv)
              ELSE IF score >= f.beta
              THEN ReturnScore(IF score >= MATE_BOUND THEN f.beta ELSE score, f.pv)
              ELSE MoveLoop(f)
  /\ UNCHANGED <<posVars, gameVars, pf, cmd, ttVars, searchVars>>

\* the driver calls negamax at the root, with current_pv cleared
RootCall ==
  /\ call.fn = "search"
  /\ search.pc = "call"
  /\ call.stack = <<>>
  /\ call' = [call EXCEPT
                !.stack = <<NewFrame(pos, search.depth, 0, search.alpha, search.beta,
                                     TRUE)>>,
                !.ret = NoRet]
  /\ search' = [search EXCEPT !.pc = "moves", !.current_pv = <<>>]
  /\ UNCHANGED <<posVars, gameVars, pf, cmd, ttVars, script, stdin, stdout, STOP_FLAG,
                 now, node, obs>>

\* negamax returns to the driver
RootReturn ==
  /\ call.fn = "search"
  /\ search.pc = "moves"
  /\ call.stack = <<>>
  /\ call.ret # NoRet
  /\ search' = SearchIterate([search EXCEPT !.current_pv = call.ret.pv],
                             call.ret.score, STOP_FLAG, now, pos)
  /\ call' = [call EXCEPT !.ret = NoRet]
  /\ UNCHANGED <<posVars, gameVars, pf, cmd, ttVars, script, stdin, stdout, STOP_FLAG,
                 now, node, obs>>

\* Position::search returns its SearchResult
SearchReturn ==
  /\ call.fn = "search"
  /\ search.pc = "finish"
  /\ search' = [SearchResult(search, pos) EXCEPT !.pc = "idle"]
  /\ call' = [call EXCEPT !.fn = "returned"]
  /\ UNCHANGED <<posVars, gameVars, pf, cmd, ttVars, script, stdin, stdout, STOP_FLAG,
                 now, node, obs>>

\* pos.search(&mut tt, time_limit, Some(depth), None)
InitPv ==
  /\ \E fen \in PvFens : pos = from_fen(fen, FALSE).pos
  /\ panicked = FALSE
  /\ overflow_checks = FALSE
  /\ book = 0
  /\ free = 0
  /\ nulls = 0
  /\ pf = PerftIdle
  /\ cmd = CmdNone
  /\ script = <<>>
  /\ stdin = <<>>
  /\ stdout = <<>>
  /\ STOP_FLAG = FALSE
  /\ now = 0
  /\ \E time_limit \in {None, 0, 1} : \E depth_limit \in 1..MaxPvDepth :
       search = SearchStart(time_limit, depth_limit, 0)
  /\ node = NoNode
  /\ obs = NoObs
  /\ tt = TranspositionTable_new(NumEntries)
  /\ ttop = NoOp
  /\ ttobs = NoTTObs
  /\ call = [fn |-> "search", stack |-> <<>>, ret |-> NoRet, stale |-> FALSE]

\* a millisecond passes.  The clock is read at the first node and by the
\* driver when negamax has returned, so the time that passes while negamax
\* runs is let pass before it is called or after it has returned
PvTick ==
  /\ call.fn = "search"
  /\ call.stack = <<>>
  /\ search.info.deadline # None
  /\ ~search.info.stopped
  /\ now < MaxTime
  /\ now' = now + 1
  /\ UNCHANGED <<libVars, posVars, gameVars, pf, cmd, script, stdin, stdout, STOP_FLAG,
                 search, node, obs>>

NextPv ==
  RootCall \/ NodeEnter \/ MovePick \/ MoveResume \/ RootReturn \/ SearchReturn
    \/ PvTick
SpecPv == InitPv /\ [][NextPv]_vars

\* the moves of pvline can be played one after the other from p, each from a
\* square that holds a piece of the side to move
RECURSIVE Replayable(_, _)
Replayable(p, pvline) ==
  \/ pvline = <<>>
  \/ /\ ValidPv(p, pvline)
     /\ Replayable(make_move(p, pvline[1]), Tail(pvline))

\* C16: in the result of a search the PV begins with best_move, and each of
\* its moves starts from a square that holds a piece of the side to move in
\* the position reached by the PV moves before it.
PvConsistent ==
  call.fn = "returned" =>
    /\ search.pv # <<>> => search.pv[1] = search.best_move
    /\ Replayable(pos, search.pv)
\* a search of depth 3 has returned a PV of three moves, after a node of the
\* tree had put a local_pv left by the search of another move behind its move
PvAfterStaleLine ==
  /\ call.fn = "returned"
  /\ Len(search.pv) = 3
  /\ call.stale

(***************************************************************************)
(* The en-passant square after a move of the game                          *)
(***************************************************************************)
\* mv moves a pawn of p two ranks ahead
IsDoublePawnPush(p, mv) ==
  /\ p.board[from_sq(mv)] # NoPiece
  /\ Piece_type(p.board[from_sq(mv)]) = Pawn
  /\ to_sq(mv) - from_sq(mv) \in {16, -16}

MaxClockMoves == 257
\* the knights go out and back: no capture, no pawn move
ShuffleMoves ==
  << <<"g", "1", "f", "3">>, <<"g", "8", "f", "6">>,
     <<"f", "3", "g", "1">>, <<"f", "6", "g", "8">> >>
\* pawn moves, a capture by a pawn, a capture by a piece, and quiet moves
PawnLine ==
  << <<"e", "2", "e", "4">>, <<"d", "7", "d", "5">>, <<"g", "1", "f", "3">>,
     <<"g", "8", "f", "6">>, <<"e", "4", "d", "5">>, <<"d", "8", "d", "5">>,
     <<"f", "3", "g", "1">>, <<"f", "6", "g", "8">> >>
ClockLines == {"shuffle", "pawns"}
LineLen(ln) == IF ln = "shuffle" THEN MaxClockMoves ELSE Len(PawnLine)
LineMove(ln, i) ==
  IF ln = "shuffle" THEN ShuffleMoves[((i - 1) % 4) + 1] ELSE PawnLine[i]

InitClock ==
  /\ pos = Position_new
  /\ panicked = FALSE
  /\ overflow_checks \in BOOLEAN
  /\ book = 0
  /\ free = 0
  /\ nulls = 0
  /\ pf = PerftIdle
  /\ cmd = CmdNone
  /\ SearchIdle
  /\ tt = TranspositionTable_new(NumEntries)
  /\ ttop = NoOp
  /\ ttobs = NoTTObs
  /\ \E ln \in ClockLines :
       call = [fn |-> "cmd_position", line |-> ln, i |-> 0, before |-> Position_new,
               ret |-> "none"]

\* if let Some(new_pos) = self.position.make_uci_move(mv_str)
\*   { self.position = new_pos; }
ClockMove ==
  /\ ~panicked
  /\ call.i < LineLen(call.line)
  /\ \E st \in {UciMoveStep([pos |-> pos, panicked |-> FALSE, trail |-> <<>>,
                             rets |-> <<>>],
                            LineMove(call.line, call.i + 1))} :
       /\ pos' = st.pos
       /\ panicked' = st.panicked
       /\ call' = [call EXCEPT !.i = @ + 1, !.before = pos,
                               !.ret = IF st.rets = <<>> THEN "panic" ELSE st.rets[1]]
  /\ UNCHANGED <<ttVars, overflow_checks, gameVars, pf, cmd, searchVars>>

NextClock == ClockMove
SpecClock == InitClock /\ [][NextClock]_vars

\* the move from square from to square to of p takes a piece or moves a pawn
CaptureOrPawnMove(p, from, to) ==
  \/ Piece_type(p.board[from]) = Pawn
  \/ p.board[to] # NoPiece
\* the squares from and to named by the move string uci
UciFrom(uci) == from_algebraic(SubSeq(uci, 1, 2))
UciTo(uci) == from_algebraic(SubSeq(uci, 3, 4))

\* C22: for any sequence of legal moves, also the move list of a position
\* command of any length, the halfmove clock after each move is 0 if the move
\* was a capture or a pawn move and otherwise the previous value plus 1,
\* without wrapping or panicking at 255, and the fullmove number increases by
\* 1 exactly after each Black move.
ClocksCount ==
  (call.fn = "cmd_position" /\ call.i > 0) =>
    /\ ~panicked
    /\ call.ret = "Some"
    /\ pos.halfmove_clock =
         IF CaptureOrPawnMove(call.before, UciFrom(LineMove(call.line, call.i)),
                              UciTo(LineMove(call.line, call.i)))
         THEN 0 ELSE call.before.halfmove_clock + 1
    /\ pos.fullmove_number =
         call.before.fullmove_number
           + (IF call.before.side_to_move = Black THEN 1 ELSE 0)

(***************************************************************************)
(* eval.rs: a Score is a record of its midgame and endgame parts; the      *)
(* tables are indexed by piece type and square, from 1                     *)
(***************************************************************************)
Score_new(mg, eg) == [mg |-> mg, eg |-> eg]
Score_ZERO == Score_new(0, 0)
Score_add(a, b) == Score_new(a.mg + b.mg, a.eg + b.eg)
Score_sub(a, b) == Score_new(a.mg - b.mg, a.eg - b.eg)
Score_mul(a, rhs) == Score_new(a.mg * rhs, a.eg * rhs)
PIECE_VALUES ==
  <<Score_new(82, 94), Score_new(337, 281), Score_new(365, 297),
    Score_new(477, 512), Score_new(1025, 936), Score_new(0, 0)>>
PHASE_VALUES == <<0, 1, 1, 2, 4, 0>>
TOTAL_PHASE == 24
PSQT_MG ==
  << <<0, 0, 0, 0, 0, 0, 0, 0, 98, 134, 61, 95, 68, 126, 34, -11,
       -6, 7, 26, 31, 65, 56, 25, -20, -14, 13, 6, 21, 23, 12, 17, -23,
       -27, -2, -5, 12, 17, 6, 10, -25, -26, -4, -4, -10, 3, 3, 33, -12,
       -35, -1, -20, -23, -15, 24, 38, -22, 0, 0, 0, 0, 0, 0, 0, 0>>,
     <<-167, -89, -34, -49, 61, -97, -15, -107, -73, -41, 72, 36, 23, 62, 7, -17,
       -47, 60, 37, 65, 84, 129, 73, 44, -9, 17, 19, 53, 37, 69, 18, 22,
       -13, 4, 16, 13, 28, 19, 21, -8, -23, -9, 12, 10, 19, 17, 25, -16,
       -29, -53, -12, -3, -1, 18, -14, -19, -105, -21, -58, -33, -17, -28, -19, -23>>,
     <<-29, 4, -82, -37, -25, -42, 7, -8, -26, 16, -18, -13, 30, 59, 18, -47,
       -16, 37, 43, 40, 35, 50, 37, -2, -4, 5, 19, 50, 37, 37, 7, -2,
       -6, 13, 13, 26, 34, 12, 10, 4, 0, 15, 15, 15, 14, 27, 18, 10,
       4, 15, 16, 0, 7, 21, 33, 1, -33, -3, -14, -21, -13, -12, -39, -21>>,
     <<32, 42, 32, 51, 63, 9, 31, 43, 27, 32, 58, 62, 80, 67, 26, 44,
       -5, 19, 26, 36, 17, 45, 61, 16, -24, -11, 7, 26, 24, 35, -8, -20,
       -36, -26, -12, -1, 9, -7, 6, -23, -45, -25, -16, -17, 3, 0, -5, -33,
       -44, -16, -20, -9, -1, 11, -6, -71, -19, -13, 1, 17, 16, 7, -37, -26>>,
     <<-28, 0, 29, 12, 59, 44, 43, 45, -24, -39, -5, 1, -16, 57, 28, 54,
       -13, -17, 7, 8, 29, 56, 47, 57, -27, -27, -16, -16, -1, 17, -2, 1,
       -9, -26, -9, -10, -2, -4, 3, -3, -14, 2, -11, -2, -5, 2, 14, 5,
       -35, -8, 11, 2, 8, 15, -3, 1, -1, -18, -9, 10, -15, -25, -31, -50>>,
     <<-65, 23, 16, -15, -56, -34, 2, 13, 29, -1, -20, -7, -8, -4, -38, -29,
       -9, 24, 2, -16, -20, 6, 22, -22, -17, -20, -12, -27, -30, -25, -14, -36,
       -49, -1, -27, -39, -46, -44, -33, -51, -14, -14, -22, -46, -44, -30, -15, -27,
       1, 7, -8, -64, -43, -16, 9, 8, -15, 36, 12, -54, 8, -28, 24, 14>> >>
PSQT_EG ==
  << <<0, 0, 0, 0, 0, 0, 0, 0, 178, 173, 158, 134, 147, 132, 165, 187,
       94, 100, 85, 67, 56, 53, 82, 84, 32, 24, 13, 5, -2, 4, 17, 17,
       13, 9, -3, -7, -7, -8, 3, -1, 4, 7, -6, 1, 0, -5, -1, -8,
       13, 8, 8, 10, 13, 0, 2, -7, 0, 0, 0, 0, 0, 0, 0, 0>>,
     <<-58, -38, -13, -28, -31, -27, -63, -99, -25, -8, -25, -2, -9, -25, -24, -52,
       -24, -20, 10, 9, -1, -9, -19, -41, -17, 3, 22, 22, 22, 11, 8, -18,
       -18, -6, 16, 25, 16, 17, 4, -18, -23, -3, -1, 15, 10, -3, -20, -22,
       -42, -20, -10, -5, -2, -20, -23, -44, -29, -51, -23, -15, -22, -18, -50, -64>>,
     <<-14, -21, -11, -8, -7, -9, -17, -24, -8, -4, 7, -12, -3, -13, -4, -14,
       2, -8, 0, -1, -2, 6, 0, 4, -3, 9, 12, 9, 14, 10, 3, 2,
       -6, 3, 13, 19, 7, 10, -3, -9, -12, -3, 8, 10, 13, 3, -7, -15,
       -14, -18, -7, -1, 4, -9, -15, -27, -23, -9, -23, -5, -9, -16, -5, -17>>,
     <<13, 10, 18, 15, 12, 12, 8, 5, 11, 13, 13, 11, -3, 3, 8, 3,
       7, 7, 7, 5, 4, -3, -5, -3, 4, 3, 13, 1, 2, 1, -1, 2,
       3, 5, 8, 4, -5, -6, -8, -11, -4, 0, -5, -1, -7, -12, -8, -16,
       -6, -6, 0, 2, -9, -9, -11, -3, -9, 2, 3, -1, -5, -13, 4, -20>>,
     <<-9, 22, 22, 27, 27, 19, 10, 20, -17, 20, 32, 41, 58, 25, 30, 0,
       -20, 6, 9, 49, 47, 35, 19, 9, 3, 22, 24, 45, 57, 40, 57, 36,
       -18, 28, 19, 47, 31, 34, 39, 23, -16, -27, 15, 6, 9, 17, 10, 5,
       -22, -23, -30, -16, -16, -23, -36, -32, -33, -28, -22, -43, -5, -32, -20, -41>>,
     <<-74, -35, -18, -18, -11, 15, 4, -17, -12, 17, 14, 17, 17, 38, 23, 11,
       10, 17, 23, 15, 20, 45, 44, 13, -8, 22, 24, 27, 26, 33, 26, 3,
       -18, -4, 21, 24, 27, 23, 9, -11, -19, -3, 11, 21, 23, 16, 7, -9,
       -27, -11, 4, 13, 14, 4, -5, -17, -53, -34, -21, -11, -28, -14, -24, -43>> >>
BISHOP_PAIR == Score_new(30, 40)
DOUBLED_PAWN == Score_new(-10, -20)
ISOLATED_PAWN == Score_new(-15, -10)
PASSED_PAWN_BONUS ==
  <<Score_new(0, 0), Score_new(5, 10), Score_new(10, 20), Score_new(20, 40),
    Score_new(35, 70), Score_new(60, 120), Score_new(100, 200), Score_new(0, 0)>>
ROOK_OPEN_FILE == Score_new(20, 10)
ROOK_SEMI_OPEN_FILE == Score_new(10, 5)

flip_rank(sq) == (7 - rank(sq)) * 8 + file(sq)
adjacent_files(bb) ==
  {s - 1 : s \in bb \ FILE_A} \cup {s + 1 : s \in bb \ FILE_H}
RECURSIVE ScoreSum(_)
ScoreSum(q) == IF q = <<>> THEN Score_ZERO ELSE Score_add(Head(q), ScoreSum(Tail(q)))

\* the material, the piece-square values and the phase of the pieces of one
\* colour and type
PsqtOf(color, piece_type, sq) ==
  LET psqt_sq == IF color = White THEN sq ELSE flip_rank(sq)
  IN Score_new(PSQT_MG[piece_type + 1][psqt_sq + 1], PSQT_EG[piece_type + 1][psqt_sq + 1])
MaterialAndPsqt(p, color, piece_type) ==
  LET sign == IF color = White THEN 1 ELSE -1
      bb == piece_bb(p, color, piece_type)
      squares == BBSeq(bb)
  IN Score_add(Score_mul(PIECE_VALUES[piece_type + 1], sign * Cardinality(bb)),
               ScoreSum([i \in DOMAIN squares |->
                           Score_mul(PsqtOf(color, piece_type, squares[i]), sign)]))
PhaseOf(p) ==
  SumSeq([i \in 1..12 |->
            PHASE_VALUES[((i - 1) % 6) + 1]
              * Cardinality(piece_bb(p, (i - 1) \div 6, (i - 1) % 6))])

\* evaluate_pawns: the terms of the pawn of color on sq
front_span(color, sq) ==
  LET rel == IF color = White THEN rank(sq) ELSE 7 - rank(sq)
      file_mask == FileBB(file(sq))
      span == IF color = White
              THEN UNION {RankBB(r) : r \in (rel + 1)..7}
              ELSE UNION {RankBB(7 - r) : r \in 0..(rel - 1)}
  IN span \cap (file_mask \cup adjacent_files(file_mask))
PawnTerms(p, color, sq) ==
  LET sign == IF color = White THEN 1 ELSE -1
      our_pawns == piece_bb(p, color, Pawn)
      their_pawns == piece_bb(p, flip(color), Pawn)
      file_mask == FileBB(file(sq))
      rel == IF color = White THEN rank(sq) ELSE 7 - rank(sq)
      doubled == IF Cardinality(our_pawns \cap file_mask) > 1
                 THEN Score_mul(DOUBLED_PAWN, sign) ELSE Score_ZERO
      isolated == IF our_pawns \cap adjacent_files(file_mask) = {}
                  THEN Score_mul(ISOLATED_PAWN, sign) ELSE Score_ZERO
      passed == IF their_pawns \cap front_span(color, sq) = {}
                THEN Score_mul(PASSED_PAWN_BONUS[rel + 1], sign) ELSE Score_ZERO
  IN Score_add(Score_add(doubled, isolated), passed)
evaluate_pawns(p) ==
  ScoreSum([i \in 1..2 |->
    LET squares == BBSeq(piece_bb(p, i - 1, Pawn))
    IN ScoreSum([k \in DOMAIN squares |-> PawnTerms(p, i - 1, squares[k])])])

\* evaluate_rooks: the term of the rook of color on sq
RookTerm(p, color, sq) ==
  LET sign == IF color = White THEN 1 ELSE -1
      our_pawns == piece_bb(p, color, Pawn)
      their_pawns == piece_bb(p, flip(color), Pawn)
      file_mask == FileBB(file(sq))
  IN IF (our_pawns \cup their_pawns) \cap file_mask = {}
     THEN Score_mul(ROOK_OPEN_FILE, sign)
     ELSE IF our_pawns \cap file_mask = {}
     THEN Score_mul(ROOK_SEMI_OPEN_FILE, sign)
     ELSE Score_ZERO
evaluate_rooks(p) ==
  ScoreSum([i \in 1..2 |->
    LET squares == BBSeq(piece_bb(p, i - 1, Rook))
    IN ScoreSum([k \in DOMAIN squares |-> RookTerm(p, i - 1, squares[k])])])

BishopPair(p) ==
  Score_sub(IF Cardinality(piece_bb(p, White, Bishop)) >= 2 THEN BISHOP_PAIR ELSE Score_ZERO,
            IF Cardinality(piece_bb(p, Black, Bishop)) >= 2 THEN BISHOP_PAIR ELSE Score_ZERO)
\* the score before the tapering, from White's side
WhiteScore(p) ==
  Score_add(Score_add(Score_add(
    ScoreSum([i \in 1..12 |-> MaterialAndPsqt(p, (i - 1) \div 6, (i - 1) % 6)]),
    evaluate_pawns(p)), BishopPair(p)), evaluate_rooks(p))
Tapered(p) ==
  LET score == WhiteScore(p)
      mg_phase == Min(PhaseOf(p), TOTAL_PHASE)
      eg_phase == TOTAL_PHASE - mg_phase
  IN TruncDiv(score.mg * mg_phase + score.eg * eg_phase, TOTAL_PHASE)
\* a bug the last step could have: the score of White for either side
FromWhitesSide(p, tapered) == as_i16(tapered)
\* the last step: the score as the side to move sees it
FromSideToMove(p, tapered) ==
  IF p.side_to_move = White THEN as_i16(tapered) ELSE as_i16(-tapered)
evaluate(p) == FromSideToMove(p, Tapered(p))

(***************************************************************************)
(* evaluate on positions built from FEN strings and on the positions one   *)
(* legal move after them.  call holds the value returned and the value     *)
(* returned for the same position with the other side to move.             *)
(***************************************************************************)
EVAL_WHITE ==
  <<"r", "3", "k", "2", "r", "/", "p", "p", "p", "p", "p", "p", "p", "p", "/", "8",
    "/", "8", "/", "8", "/", "8", "/", "P", "P", "P", "P", "P", "P", "P", "P", "/",
    "R", "3", "K", "2", "R", " ", "w", " ", "K", "Q", "k", "q", " ", "-", " ", "0",
    " ", "1">>
EVAL_BLACK ==
  <<"r", "3", "k", "2", "r", "/", "p", "p", "p", "p", "p", "p", "p", "p", "/", "8",
    "/", "8", "/", "8", "/", "8", "/", "P", "P", "P", "P", "P", "P", "P", "P", "/",
    "R", "3", "K", "2", "R", " ", "b", " ", "K", "Q", "k", "q", " ", "-", " ", "0",
    " ", "1">>
\* a bishop pair, a rook on an open file, doubled, isolated and passed pawns
EVAL_ENDGAME ==
  <<"4", "k", "3", "/", "2", "p", "3", "p", "1", "/", "6", "p", "1", "/", "8", "/",
    "3", "P", "4", "/", "8", "/", "B", "1", "B", "5", "/", "R", "3", "K", "3", " ",
    "w", " ", "-", " ", "-", " ", "0", " ", "1">>
EvalFens == {EVAL_WHITE, EVAL_BLACK, EVAL_ENDGAME, KIWIPETE}
\* the moves played before evaluate is called
MaxEvalMoves == 1

InitEval ==
  /\ \E fen \in EvalFens : pos = from_fen(fen, FALSE).pos
  /\ panicked = FALSE
  /\ overflow_checks = FALSE
  /\ book = 0
  /\ free = 0
  /\ nulls = 0
  /\ pf = PerftIdle
  /\ cmd = CmdNone
  /\ SearchIdle
  /\ tt = TranspositionTable_new(NumEntries)
  /\ ttop = NoOp
  /\ ttobs = NoTTObs
  /\ call = [fn |-> "none", ret |-> 0, flipped |-> 0]

EvalMove ==
  /\ free < MaxEvalMoves
  /\ \E mv \in SeqRange(generate_legal_moves(pos)) : pos' = make_move(pos, mv)
  /\ free' = free + 1
  /\ call' = [fn |-> "make_move", ret |-> 0, flipped |-> 0]
  /\ UNCHANGED <<ttVars, panicked, overflow_checks, book, nulls, pf, cmd, searchVars>>

\* pos.evaluate(), and evaluate() on pos with the other side to move
Evaluate ==
  /\ call.fn # "evaluate"
  /\ call' = [fn |-> "evaluate", ret |-> evaluate(pos),
              flipped |-> evaluate([pos EXCEPT !.side_to_move = flip(@)])]
  /\ UNCHANGED <<ttVars, posVars, gameVars, pf, cmd, searchVars>>

NextEval == EvalMove \/ Evaluate
SpecEval == InitEval /\ [][NextEval]_vars

\* C23: for a position P and the position P' that differs from P only in the
\* side to move, evaluate(P') = -evaluate(P).
EvaluateAntisymmetric ==
  call.fn = "evaluate" => call.flipped = -call.ret
\* evaluate has returned a score other than 0 with Black to move
EvaluatedForBlack ==
  /\ call.fn = "evaluate"
  /\ pos.side_to_move = Black
  /\ call.ret # 0

(***************************************************************************)
(* The time limit of cmd_go for a go line with the clocks of both sides.   *)
(* call holds the line, the side to move and the limit computed.           *)
(***************************************************************************)
GoTimes == {0, 1, 50, 99, 100, 101, 130, 1000, 3000, 60000}
GoIncs == {None, 0, 1, 2, 1000, 5000}
GoMovesToGo == {None, 0, 1, 2, 40}
\* the side that is not to move has 777 ms and no increment

InitGo ==
  /\ pos = Position_new
  /\ panicked = FALSE
  /\ overflow_checks = FALSE
  /\ book = 0
  /\ free = 0
  /\ nulls = 0
  /\ pf = PerftIdle
  /\ cmd = CmdNone
  /\ SearchIdle
  /\ tt = TranspositionTable_new(NumEntries)
  /\ ttop = NoOp
  /\ ttobs = NoTTObs
  /\ \E side \in Colors : \E t \in GoTimes : \E inc \in GoIncs : \E m \in GoMovesToGo :
       call = [fn |-> "go", side |-> side, t |-> t, inc |-> inc, m |-> m,
               line |-> [NoLine EXCEPT
                           !.name = "go",
                           !.wtime = IF side = White THEN t ELSE 777,
                           !.btime = IF side = Black THEN t ELSE 777,
                           !.winc = IF side = White THEN inc ELSE None,
                           !.binc = IF side = Black THEN inc ELSE None,
                           !.movestogo = m],
               time_limit |-> None]

\* cmd_go up to the call of search
GoLimit ==
  /\ call.fn = "go"
  /\ call' = [call EXCEPT !.fn = "search",
                          !.time_limit = TimeLimit(call.line, call.side)]
  /\ UNCHANGED <<ttVars, posVars, gameVars, pf, cmd, searchVars>>

NextGo == GoLimit
SpecGo == InitGo /\ [][NextGo]_vars

\* t/max(m,1) + 3*inc/4 for the clocks of the call
PerMove ==
  (call.t \div Max(IF call.m = None THEN 30 ELSE call.m, 1))
    + (3 * (IF call.inc = None THEN 0 ELSE call.inc)) \div 4

\* C24: for remaining time t ms, increment inc and moves-to-go m (default 30)
\* of the side to move, the time limit passed to the search by go is
\* min(t - 100, t/max(m,1) + 3*inc/4) in integer arithmetic and never
\* exceeds t.
GoLimitIsMin ==
  call.fn = "search" =>
    /\ call.time_limit = Min(call.t - 100, PerMove)
    /\ call.time_limit <= call.t
\* C24, amended: the limit is min(max(t - 100, 0), t/max(m,1) + 3*inc/4), so
\* it is 0 when fewer than 100 ms remain, and it never exceeds t.
GoLimitIsSaturatingMin ==
  call.fn = "search" =>
    /\ call.time_limit = Min(Max(call.t - 100, 0), PerMove)
    /\ call.time_limit >= 0
    /\ call.time_limit <= call.t
\* the buffer of 100 ms decides the limit
GoLimitFromBuffer ==
  /\ call.fn = "search"
  /\ call.t >= 100
  /\ call.time_limit = call.t - 100
  /\ call.time_limit < PerMove

(***************************************************************************)
(* ordering.rs: the killer moves of SearchHeuristics.  call holds the      *)
(* table killers (two moves for each ply below MAX_PLY), the arguments of  *)
(* the last call of update_killer and the table before that call.          *)
(***************************************************************************)
\* e2e4, g1f3, a7a8=Q without capture, and the null move
QuietKillers ==
  {Move_quiet(12, 28), Move_quiet(6, 21), Move_new(48, 56, FLAG_PROMO_QUEEN), Move_NULL}
\* e4xd5, e5xd6 en passant, b7xa8=Q
CaptureKillers ==
  {Move_capture(28, 35), Move_new(36, 43, FLAG_EP_CAPTURE),
   Move_new(49, 56, FLAG_PROMO_QUEEN + FLAG_CAPTURE)}
KillerPlies == {0, MAX_PLY - 1, MAX_PLY}
SearchHeuristics_new_killers == [ply \in 0..(MAX_PLY - 1) |-> <<Move_NULL, Move_NULL>>]

\* a bug update_killer could have: the first killer is not looked at
update_killer_unchecked(killers, mv, ply) ==
  IF ply >= MAX_PLY THEN killers
  ELSE IF is_capture(mv) THEN killers
  ELSE [killers EXCEPT ![ply] = <<mv, killers[ply][1]>>]
update_killer(killers, mv, ply) ==
  IF ply >= MAX_PLY THEN killers
  ELSE IF is_capture(mv) THEN killers
  ELSE IF killers[ply][1] = mv THEN killers
  ELSE [killers EXCEPT ![ply] = <<mv, killers[ply][1]>>]

InitKiller ==
  /\ pos = Position_new
  /\ panicked = FALSE
  /\ overflow_checks = FALSE
  /\ book = 0
  /\ free = 0
  /\ nulls = 0
  /\ pf = PerftIdle
  /\ cmd = CmdNone
  /\ SearchIdle
  /\ tt = TranspositionTable_new(NumEntries)
  /\ ttop = NoOp
  /\ ttobs = NoTTObs
  /\ call = [fn |-> "new", killers |-> SearchHeuristics_new_killers,
             mv |-> Move_NULL, ply |-> 0, before |-> SearchHeuristics_new_killers]

UpdateKiller ==
  /\ \E mv \in QuietKillers \cup CaptureKillers : \E ply \in KillerPlies :
       call' = [fn |-> "update_killer", killers |-> update_killer(call.killers, mv, ply),
                mv |-> mv, ply |-> ply, before |-> call.killers]
  /\ UNCHANGED <<ttVars, posVars, gameVars, pf, cmd, searchVars>>

NextKiller == UpdateKiller
SpecKiller == InitKiller /\ [][NextKiller]_vars

\* C25: for any sequence of update_killer calls at a ply, a non-capture move
\* that is not already the first killer becomes killers[ply][0] and the
\* former first killer moves to killers[ply][1]; a capture is never stored;
\* and the two killer slots of a ply never hold the same non-null move.
KillersShiftAndDiffer ==
  /\ (call.fn = "update_killer" /\ call.ply < MAX_PLY) =>
       /\ (call.mv \in QuietKillers /\ call.before[call.ply][1] # call.mv) =>
            call.killers[call.ply] = <<call.mv, call.before[call.ply][1]>>
       /\ call.mv \in CaptureKillers => call.killers = call.before
       /\ \A ply \in 0..(MAX_PLY - 1) :
            ply # call.ply => call.killers[ply] = call.before[ply]
  /\ \A ply \in 0..(MAX_PLY - 1) :
       /\ call.killers[ply][1] \notin CaptureKillers
       /\ call.killers[ply][2] \notin CaptureKillers
       /\ call.killers[ply][1] # Move_NULL =>
            call.killers[ply][1] # call.killers[ply][2]
\* the second killer of a ply has been made its first killer again
KillersSwapped ==
  /\ call.fn = "update_killer"
  /\ call.ply < MAX_PLY
  /\ call.mv # Move_NULL
  /\ call.before[call.ply][2] = call.mv
  /\ call.before[call.ply][1] # Move_NULL
  /\ call.killers[call.ply] = <<call.mv, call.before[call.ply][1]>>

(***************************************************************************)
(* movegen.rs: generate_captures and is_legal, as quiescence uses them     *)
(***************************************************************************)
\* the loops of generate_pawn_captures: no pin is looked at
PawnCaptureLoop(bb, back, promote, capture) ==
  With(BBSeq(bb), LAMBDA t :
    Flatten([i \in 1..Len(t) |->
      IF promote THEN add_promotions(t[i] - back, t[i], capture)
      ELSE <<Move_capture(t[i] - back, t[i])>>]))
generate_pawn_captures(p, their_pieces) ==
  LET us == p.side_to_move
      them == flip(us)
      pawns == piece_bb(p, us, Pawn)
      push_dir == IF us = White THEN 8 ELSE -8
      promo_rank == IF us = White THEN RANK_7 ELSE RANK_2
      promo_pawns == pawns \cap promo_rank
      non_promo_pawns == pawns \ promo_rank
      left(bb) == IF us = White THEN north_west(bb) ELSE south_west(bb)
      right(bb) == IF us = White THEN north_east(bb) ELSE south_east(bb)
      attackers == IF p.en_passant # NoSquare
                   THEN BBSeq(pawn_attacks(them, p.en_passant) \cap pawns) ELSE <<>>
  IN PawnCaptureLoop(left(non_promo_pawns) \cap their_pieces, push_dir - 1, FALSE, TRUE)
     \o PawnCaptureLoop(right(non_promo_pawns) \cap their_pieces, push_dir + 1, FALSE, TRUE)
     \o PawnCaptureLoop(left(promo_pawns) \cap their_pieces, push_dir - 1, TRUE, TRUE)
     \o PawnCaptureLoop(right(promo_pawns) \cap their_pieces, push_dir + 1, TRUE, TRUE)
     \o PawnCaptureLoop(pawn_push(promo_pawns, us) \ p.all_occupied, push_dir, TRUE, FALSE)
     \o Flatten([i \in DOMAIN attackers |->
          IF is_ep_legal(p, attackers[i], p.en_passant)
          THEN <<Move_en_passant(attackers[i], p.en_passant)>> ELSE <<>>])

\* the captures of the pieces of one type: attacks gives the attacks from a square
PieceCaptures(p, piece_type, their_pieces) ==
  LET froms == BBSeq(piece_bb(p, p.side_to_move, piece_type))
      attacks(from) ==
        CASE piece_type = Knight -> knight_attacks(from)
          [] piece_type = Bishop -> bishop_attacks(from, p.all_occupied)
          [] piece_type = Rook -> rook_attacks(from, p.all_occupied)
          [] OTHER -> bishop_attacks(from, p.all_occupied)
                        \cup rook_attacks(from, p.all_occupied)
      tos(from) == BBSeq(attacks(from) \cap their_pieces)
  IN Flatten([i \in DOMAIN froms |->
       [k \in DOMAIN tos(froms[i]) |-> Move_capture(froms[i], tos(froms[i])[k])]])
generate_captures(p) ==
  LET us == p.side_to_move
      their_pieces == p.occupied[flip(us)]
      king_sq == p.king_sq[us]
      king_tos == BBSeq(king_attacks(king_sq) \cap their_pieces)
  IN generate_pawn_captures(p, their_pieces)
     \o PieceCaptures(p, Knight, their_pieces)
     \o PieceCaptures(p, Bishop, their_pieces)
     \o PieceCaptures(p, Rook, their_pieces)
     \o PieceCaptures(p, Queen, their_pieces)
     \o [k \in DOMAIN king_tos |-> Move_capture(king_sq, king_tos[k])]

is_legal(p, mv) ==
  LET us == p.side_to_move
      them == flip(us)
      from == from_sq(mv)
      to == to_sq(mv)
      king_sq == p.king_sq[us]
  IN IF from = king_sq
     THEN IF is_castle(mv) THEN TRUE
          ELSE ~is_square_attacked(p, to, them, p.all_occupied \ {from})
     ELSE IF is_en_passant(mv) THEN is_ep_legal(p, from, to)
     ELSE IF from \in pinned_pieces(p, us) THEN aligned(from, to, king_sq)
     ELSE IF p.checkers # EMPTY
     THEN to \in (between(king_sq, lsb(p.checkers)) \cup p.checkers)
     ELSE TRUE

(***************************************************************************)
(* is_legal on the moves of generate_captures, in positions built from FEN *)
(* strings and one legal move after them.  call holds the move and the     *)
(* value returned.                                                         *)
(***************************************************************************)
\* the king on e1 is checked by the bishop on b4 and the rook on e8; the
\* pawn on a3 can take the bishop
DOUBLE_CHECK ==
  <<"4", "r", "2", "k", "/", "8", "/", "8", "/", "8", "/", "1", "b", "6", "/", "P",
    "7", "/", "8", "/", "4", "K", "3", " ", "w", " ", "-", " ", "-", " ", "0", " ",
    "1">>
\* the king on e1 is checked by the bishop on b4; the rook on e2 is pinned by
\* the rook on e8 and can take it
PINNED_IN_CHECK ==
  <<"4", "r", "2", "k", "/", "8", "/", "8", "/", "8", "/", "1", "b", "6", "/", "8",
    "/", "4", "R", "3", "/", "4", "K", "3", " ", "w", " ", "-", " ", "-", " ", "0",
    " ", "1">>
LegalFens == {KIWIPETE, PROMOTION_FEN, DOUBLE_CHECK, PINNED_IN_CHECK}
\* the moves played before is_legal is called
MaxLegalMoves == 1

InitLegal ==
  /\ \E fen \in LegalFens : pos = from_fen(fen, FALSE).pos
  /\ panicked = FALSE
  /\ overflow_checks = FALSE
  /\ book = 0
  /\ free = 0
  /\ nulls = 0
  /\ pf = PerftIdle
  /\ cmd = CmdNone
  /\ SearchIdle
  /\ tt = TranspositionTable_new(NumEntries)
  /\ ttop = NoOp
  /\ ttobs = NoTTObs
  /\ call = [fn |-> "none", mv |-> Move_NULL, ret |-> FALSE]

LegalMove ==
  /\ free < MaxLegalMoves
  /\ \E mv \in SeqRange(generate_legal_moves(pos)) : pos' = make_move(pos, mv)
  /\ free' = free + 1
  /\ call' = [fn |-> "make_move", mv |-> Move_NULL, ret |-> FALSE]
  /\ UNCHANGED <<ttVars, panicked, overflow_checks, book, nulls, pf, cmd, searchVars>>

\* qsearch: self.is_legal(mv) for a move of generate_captures
IsLegal ==
  /\ \E mv \in SeqRange(generate_captures(pos)) :
       call' = [fn |-> "is_legal", mv |-> mv, ret |-> is_legal(pos, mv)]
  /\ UNCHANGED <<ttVars, posVars, gameVars, pf, cmd, searchVars>>

NextLegal == LegalMove \/ IsLegal
SpecLegal == InitLegal /\ [][NextLegal]_vars

\* C26: for every pseudo-legal move m of the side to move produced by
\* generate_captures, is_legal(m) is true iff m is in the output of
\* generate_legal_moves (so it is false for a non-king move in double check
\* and for a pinned piece's move along its pin line that neither blocks nor
\* captures the checker), and a move it accepts does not leave the own king
\* attacked.
IsLegalAgreesWithGeneration ==
  call.fn = "is_legal" =>
    /\ call.ret <=> call.mv \in SeqRange(generate_legal_moves(pos))
    /\ call.ret =>
         ~is_attacked_by(make_move(pos, call.mv),
                         make_move(pos, call.mv).king_sq[pos.side_to_move],
                         flip(pos.side_to_move))

(***************************************************************************)
(* The polling of should_stop by the nodes of a search.  Each step is the  *)
(* head of one node, of negamax or of qsearch, on the counter info.nodes   *)
(* they share.  qsearch is entered from a negamax node of depth <= 0 or    *)
(* from a qsearch node; call.in_q says that the last node was one of       *)
(* these.  The stop flag is stored by another thread, or the deadline      *)
(* passes, when the counter stands at one of StopPoints; call.event_at is  *)
(* the counter at that moment.                                             *)
(***************************************************************************)
\* the nodes followed
MaxPollNodes == 6200
StopPoints == {1, 2049, 4097}

InitPoll ==
  /\ pos = Position_new
  /\ panicked = FALSE
  /\ overflow_checks = FALSE
  /\ book = 0
  /\ free = 0
  /\ nulls = 0
  /\ pf = PerftIdle
  /\ cmd = CmdNone
  /\ script = <<>>
  /\ stdin = <<>>
  /\ stdout = <<>>
  /\ STOP_FLAG = FALSE
  /\ now = 0
  /\ \E time_limit \in {None, 1} : search = SearchStart(time_limit, None, 0)
  /\ node = NoNode
  /\ obs = NoObs
  /\ tt = TranspositionTable_new(NumEntries)
  /\ ttop = NoOp
  /\ ttobs = NoTTObs
  /\ call = [fn |-> "search", in_q |-> FALSE, event_at |-> None]

\* negamax: if info.nodes & 4095 == 0 && info.should_stop() { return 0; }
\*          info.nodes += 1;
NegamaxPoll(info, stop_flag, t) ==
  With(IF info.nodes % 4096 = 0 THEN should_stop(info, stop_flag, t) ELSE info,
       LAMBDA i : IF i.stopped THEN i ELSE [i EXCEPT !.nodes = @ + 1])
\* qsearch: info.nodes += 1;
\*          if info.nodes & 2047 == 0 && info.should_stop() { return 0; }
QsearchPoll(info, stop_flag, t) ==
  With([info EXCEPT !.nodes = @ + 1], LAMBDA i :
    IF i.nodes % 2048 = 0 THEN should_stop(i, stop_flag, t) ELSE i)

\* a node of negamax, of depth <= 0 (leaf) or above
NegamaxHead ==
  /\ ~search.info.stopped
  /\ search.info.nodes < MaxPollNodes
  /\ search' = [search EXCEPT !.info = NegamaxPoll(@, STOP_FLAG, now)]
  /\ \E leaf \in BOOLEAN : call' = [call EXCEPT !.in_q = leaf]
  /\ UNCHANGED <<ttVars, posVars, gameVars, pf, cmd, script, stdin, stdout, STOP_FLAG,
                 now, node, obs>>

\* a node of qsearch
QsearchHead ==
  /\ ~search.info.stopped
  /\ search.info.nodes < MaxPollNodes
  /\ call.in_q
  /\ search' = [search EXCEPT !.info = QsearchPoll(@, STOP_FLAG, now)]
  /\ UNCHANGED <<ttVars, call, posVars, gameVars, pf, cmd, script, stdin, stdout,
                 STOP_FLAG, now, node, obs>>

\* STOP_FLAG.store(true) while the search runs
StopStored ==
  /\ ~search.info.stopped
  /\ call.event_at = None
  /\ search.info.nodes \in StopPoints
  /\ STOP_FLAG' = TRUE
  /\ call' = [call EXCEPT !.event_at = search.info.nodes]
  /\ UNCHANGED <<ttVars, posVars, gameVars, pf, cmd, script, stdin, stdout, now,
                 search, node, obs>>

\* the clock reaches the deadline
DeadlinePassed ==
  /\ ~search.info.stopped
  /\ call.event_at = None
  /\ search.info.nodes \in StopPoints
  /\ search.info.deadline # None
  /\ now < search.info.deadline
  /\ now' = search.info.deadline
  /\ call' = [call EXCEPT !.event_at = search.info.nodes]
  /\ UNCHANGED <<ttVars, posVars, gameVars, pf, cmd, script, stdin, stdout, STOP_FLAG,
                 search, node, obs>>

NextPoll == NegamaxHead \/ QsearchHead \/ StopStored \/ DeadlinePassed
SpecPoll == InitPoll /\ [][NextPoll]_vars

\* C27: once the stop flag is set or the deadline has passed, the node
\* counter advances by at most 4096 nodes, negamax and quiescence nodes
\* together, before should_stop is next called, for every interleaving of
\* negamax and quiescence nodes.
StopSeenWithinInterval ==
  (call.event_at # None /\ ~search.info.stopped) =>
    search.info.nodes - call.event_at <= 4096

(***************************************************************************)
(* The aspiration loop of Position::search at the depths 5 and 6, on any   *)
(* scores of negamax.  search holds the locals of the driver; call holds   *)
(* the last score returned, the window it was searched with, the number of *)
(* searches of the iteration so far (tries) and whether the score was      *)
(* accepted as the result of the iteration.                                *)
(***************************************************************************)
\* the searches followed in one iteration
MaxAspSearches == 40
\* best_score after the iteration of depth 4
AspBestScores == {-20000, 10, 20000}
\* the scores negamax may return for the window (alpha, beta)
AspScores(alpha, beta) ==
  {s \in {0, alpha, beta, -31999, 31999} : -INFINITY < s /\ s < INFINITY}

InitAsp ==
  /\ pos = Position_new
  /\ panicked = FALSE
  /\ overflow_checks \in BOOLEAN
  /\ book = 0
  /\ free = 0
  /\ nulls = 0
  /\ pf = PerftIdle
  /\ cmd = CmdNone
  /\ script = <<>>
  /\ stdin = <<>>
  /\ stdout = <<>>
  /\ STOP_FLAG = FALSE
  /\ now = 0
  /\ \E best_score \in AspBestScores :
       search = Window([NoSearch EXCEPT !.max_depth = 5, !.best_score = best_score], 5)
  /\ node = NoNode
  /\ obs = NoObs
  /\ tt = TranspositionTable_new(NumEntries)
  /\ ttop = NoOp
  /\ ttobs = NoTTObs
  /\ call = [fn |-> "search", score |-> 0, alpha |-> 0, beta |-> 0, depth |-> 0,
             tries |-> 0, accepted |-> FALSE]

\* beta = (alpha + beta) / 2 in a build that traps overflow
MidpointPanics(s, score) ==
  /\ overflow_checks
  /\ score <= s.alpha
  /\ (s.alpha + s.beta > 32767 \/ s.alpha + s.beta < -32768)

\* one turn of the inner loop: negamax returns score, should_stop is false
AspirationSearch ==
  /\ ~panicked
  /\ search.pc = "call"
  /\ call.tries < MaxAspSearches \/ call.accepted
  /\ \E score \in AspScores(search.alpha, search.beta) :
     \E accepted \in {score > search.alpha /\ score < search.beta} :
       /\ call' = [fn |-> "negamax", score |-> score, alpha |-> search.alpha,
                   beta |-> search.beta, depth |-> search.depth,
                   tries |-> IF call.accepted THEN 1 ELSE call.tries + 1,
                   accepted |-> accepted]
       /\ IF MidpointPanics(search, score)
          THEN /\ panicked' = TRUE
               /\ search' = search
          ELSE /\ panicked' = FALSE
               /\ search' = SearchWindow(search, score, pos)
  /\ UNCHANGED <<ttVars, pos, overflow_checks, gameVars, pf, cmd, script, stdin, stdout,
                 STOP_FLAG, now, node, obs>>

NextAsp == AspirationSearch
SpecAsp == InitAsp /\ [][NextAsp]_vars

\* C28: for each iterative-deepening depth >= 5 the aspiration loop ends
\* after finitely many re-searches (here: at most 20 searches) for any
\* sequence of scores of negamax in (-INFINITY, INFINITY), and the score
\* accepted as the result of the iteration lies strictly inside the window
\* used for the search that produced it.
AspirationEndsInWindow ==
  /\ ~panicked
  /\ call.fn = "negamax" =>
       /\ call.tries <= 20
       /\ call.accepted =>
            /\ call.alpha < call.score
            /\ call.score < call.beta
            /\ search.best_score = call.score

\* ---------------------------------------------------------------------------
\* search.rs, negamax: mate distance pruning

\* C30: mate distance pruning clips beta to MATE_SCORE - ply: a call of
\* negamax that has gone past the pruning step works with a beta of at most
\* MATE_SCORE - ply, and with an alpha below it (the call has returned where
\* the clipped window is empty)
MateDistanceClipsBeta ==
  call.fn = "search" =>
    \A k \in DOMAIN call.stack :
      call.stack[k].stage # "enter" =>
        /\ call.stack[k].beta <= MATE_SCORE - call.stack[k].ply
        /\ call.stack[k].alpha < MATE_SCORE - call.stack[k].ply

\* ---------------------------------------------------------------------------
\* search.rs, negamax on a position that has no legal move

\* back rank mate, Black to move, without and with a full halfmove clock
BACK_RANK_MATE ==
  <<"R", "5", "k", "1", "/", "5", "p", "p", "p", "/", "8", "/", "8", "/", "8", "/",
    "8", "/", "8", "/", "6", "K", "1", " ", "b", " ", "-", " ", "-", " ", "0", " ",
    "1">>
BACK_RANK_MATE_100 ==
  <<"R", "5", "k", "1", "/", "5", "p", "p", "p", "/", "8", "/", "8", "/", "8", "/",
    "8", "/", "8", "/", "6", "K", "1", " ", "b", " ", "-", " ", "-", " ", "1", "0",
    "0", " ", "6", "0">>
\* stalemate, Black to move: the bishop is pinned on the back rank
PINNED_STALEMATE ==
  <<"k", "b", "5", "R", "/", "8", "/", "1", "K", "6", "/", "8", "/", "8", "/", "8",
    "/", "8", "/", "8", " ", "b", " ", "-", " ", "-", " ", "0", " ", "1">>
MateFens == {BACK_RANK_MATE, BACK_RANK_MATE_100, PINNED_STALEMATE}
MaxMateDepth == 3
MatePlies == {1, 2}
MateWindows ==
  {<<-INFINITY, INFINITY>>, <<-50, 50>>, <<-100, -99>>, <<MATE_SCORE - 1, INFINITY>>}

\* negamax(&mut tt, &mut info, &mut heuristics, depth, ply, alpha, beta, &mut pv, is_pv)
InitMate ==
  /\ \E fen \in MateFens : pos = from_fen(fen, FALSE).pos
  /\ panicked = FALSE
  /\ overflow_checks = FALSE
  /\ book = 0
  /\ free = 0
  /\ nulls = 0
  /\ pf = PerftIdle
  /\ cmd = CmdNone
  /\ script = <<>>
  /\ stdin = <<>>
  /\ stdout = <<>>
  /\ STOP_FLAG = FALSE
  /\ now = 0
  /\ search = SearchStart(None, None, 0)
  /\ node = NoNode
  /\ obs = NoObs
  /\ tt = TranspositionTable_new(NumEntries)
  /\ ttop = NoOp
  /\ ttobs = NoTTObs
  /\ \E depth \in 1..MaxMateDepth : \E ply \in MatePlies : \E w \in MateWindows :
     \E is_pv \in BOOLEAN :
       call = [fn |-> "search",
               stack |-> <<NewFrame(pos, depth, ply, w[1], w[2], is_pv)>>,
               ret |-> NoRet, stale |-> FALSE, ply |-> ply]

NextMate == NodeEnter \/ MoveResume
SpecMate == InitMate /\ [][NextMate]_vars

\* C29: negamax on a position with no legal move returns -(MATE_SCORE - ply)
\* when the side to move is in check and 0 when it is not, whatever the
\* depth, the window and the kind of node
NoLegalMoveScore ==
  (/\ call.fn = "search"
   /\ call.stack = <<>>
   /\ call.ret # NoRet
   /\ generate_legal_moves(pos) = <<>>) =>
     call.ret.score = (IF is_in_check(pos) THEN -(MATE_SCORE - call.ply) ELSE 0)

\* ---------------------------------------------------------------------------
\* search.rs, negamax: the late move reduction of one move of a node

MaxLmrDepth == 66
MaxLmrMoves == 66

\* one turn of the loop over the moves, at the point where the reduction is
\* computed: the node's depth, the moves searched so far, the kind of node,
\* and what the move is
InitLmr ==
  /\ pos = Position_new
  /\ panicked = FALSE
  /\ overflow_checks \in BOOLEAN
  /\ book = 0
  /\ free = 0
  /\ nulls = 0
  /\ pf = PerftIdle
  /\ cmd = CmdNone
  /\ SearchIdle
  /\ tt = TranspositionTable_new(NumEntries)
  /\ ttop = NoOp
  /\ ttobs = NoTTObs
  /\ \E depth \in 1..MaxLmrDepth : \E moves_searched \in 0..MaxLmrMoves :
     \E is_pv \in BOOLEAN : \E tactical \in BOOLEAN : \E in_check \in BOOLEAN :
     \E gives_check \in BOOLEAN :
       call = [fn |-> "reduction", depth |-> depth, moves_searched |-> moves_searched,
               is_pv |-> is_pv, tactical |-> tactical, in_check |-> in_check,
               gives_check |-> gives_check, done |-> FALSE, reduction |-> 0]

\* let reduction = if ... { ...; r.min(depth - 1) } else { 0 };
LateMoveReduction ==
  /\ call.fn = "reduction"
  /\ ~call.done
  /\ ~panicked
  /\ LET applies == LmrApplies(call.moves_searched, call.depth, call.tactical,
                               call.in_check, call.gives_check)
     IN IF applies /\ overflow_checks
           /\ LmrPanics(call.depth, call.moves_searched, call.is_pv)
        THEN /\ panicked' = TRUE
             /\ call' = [call EXCEPT !.done = TRUE]
        ELSE /\ panicked' = FALSE
             /\ call' = [call EXCEPT
                           !.done = TRUE,
                           !.reduction =
                             IF applies
                             THEN LmrReduction(call.depth, call.moves_searched,
                                               call.is_pv)
                             ELSE 0]
  /\ UNCHANGED <<pos, overflow_checks, book, free, nulls, pf, cmd, script, stdin,
                 stdout, STOP_FLAG, now, search, node, obs, ttVars>>

NextLmr == LateMoveReduction
SpecLmr == InitLmr /\ [][NextLmr]_vars

\* C31: the late move reduction R of a move is computed without a panic and
\* 0 <= R <= depth - 1, so the reduced depth depth - 1 - R lies in
\* 0..(depth - 1); R is 0 for a tactical move, in check, and for a move that
\* gives check
LmrReductionInRange ==
  (call.fn = "reduction" /\ call.done) =>
    /\ ~panicked
    /\ 0 <= call.reduction
    /\ call.reduction <= call.depth - 1
    /\ (call.tactical \/ call.in_check \/ call.gives_check) => call.reduction = 0

\* ---------------------------------------------------------------------------
\* ordering.rs and search.rs: the countermove heuristic

\* SearchHeuristics::new: countermoves and prev_move
NoCountermoves == [from \in 0..63 |-> [to \in 0..63 |-> Move_NULL]]
\* SearchHeuristics::update_countermove, on the countermoves table
update_countermove(countermoves, prev_move, mv) ==
  IF is_null(prev_move) \/ is_capture(mv) THEN countermoves
  ELSE [countermoves EXCEPT ![from_sq(prev_move)][to_sq(prev_move)] = mv]
\* SearchHeuristics::is_countermove
is_countermove(countermoves, prev_move, mv) ==
  IF is_null(prev_move) THEN FALSE
  ELSE countermoves[from_sq(prev_move)][to_sq(prev_move)] = mv

MaxCounterPly == 3
MaxCounterCuts == 2
\* e2e4, g1f3, e7e5, b8c6 and the capture e4xd5
CounterMoves ==
  {Move_quiet(12, 28), Move_quiet(6, 21), Move_quiet(52, 36), Move_quiet(57, 42),
   Move_capture(28, 35)}

\* a search: the moves played from the root to the node negamax is in
\* (path), the heuristics of SearchInfo, the last cutoff and the last call of
\* score_move
InitCounter ==
  /\ pos = Position_new
  /\ panicked = FALSE
  /\ overflow_checks = FALSE
  /\ book = 0
  /\ free = 0
  /\ nulls = 0
  /\ pf = PerftIdle
  /\ cmd = CmdNone
  /\ SearchIdle
  /\ tt = TranspositionTable_new(NumEntries)
  /\ ttop = NoOp
  /\ ttobs = NoTTObs
  /\ call = [fn |-> "negamax", path |-> <<>>, prev_move |-> Move_NULL,
             countermoves |-> NoCountermoves, cuts |-> 0,
             cut |-> [p |-> Move_NULL, mv |-> Move_NULL],
             scored |-> [p |-> Move_NULL, mv |-> Move_NULL, countermove |-> FALSE]]

\* negamax makes a move of its loop and calls itself on the new position;
\* nothing is written to the heuristics on the way
CounterPlay ==
  /\ call.fn \in {"negamax", "cutoff", "score_move"}
  /\ Len(call.path) < MaxCounterPly
  /\ \E mv \in CounterMoves :
       call' = [call EXCEPT !.fn = "negamax", !.path = Append(@, mv)]
  /\ UNCHANGED <<ttVars, posVars, gameVars, pf, cmd, searchVars>>

\* the move mv fails high in the node: update_countermove(prev_move, mv) for
\* a non-capture, and the node returns
CounterCutoff ==
  /\ call.fn \in {"negamax", "cutoff", "score_move"}
  /\ call.path # <<>>
  /\ call.cuts < MaxCounterCuts
  /\ \E mv \in CounterMoves :
       call' = [call EXCEPT
                  !.fn = "cutoff",
                  !.countermoves = IF is_capture(mv) THEN @
                                   ELSE update_countermove(@, call.prev_move, mv),
                  !.cuts = @ + 1,
                  !.cut = [p |-> call.path[Len(call.path)], mv |-> mv],
                  !.path = SubSeq(@, 1, Len(@) - 1)]
  /\ UNCHANGED <<ttVars, posVars, gameVars, pf, cmd, searchVars>>

\* the node returns without a cutoff
CounterReturn ==
  /\ call.fn \in {"negamax", "cutoff", "score_move"}
  /\ call.path # <<>>
  /\ call' = [call EXCEPT !.fn = "negamax", !.path = SubSeq(@, 1, Len(@) - 1)]
  /\ UNCHANGED <<ttVars, posVars, gameVars, pf, cmd, searchVars>>

\* score_move on a move of the node: is_countermove(heuristics.prev_move, mv)
CounterScore ==
  /\ call.fn \in {"negamax", "cutoff"}
  /\ call.path # <<>>
  /\ call.cuts > 0
  /\ \E mv \in {call.cut.mv} :
       call' = [call EXCEPT
                  !.fn = "score_move",
                  !.scored = [p |-> call.path[Len(call.path)], mv |-> mv,
                              countermove |-> is_countermove(call.countermoves,
                                                             call.prev_move, mv)]]
  /\ UNCHANGED <<ttVars, posVars, gameVars, pf, cmd, searchVars>>

NextCounter == CounterPlay \/ CounterCutoff \/ CounterReturn \/ CounterScore
SpecCounter == InitCounter /\ [][NextCounter]_vars

\* C32: after a quiet move has cut off a node reached by playing p, the
\* countermove slot of p holds the cutting move, and a later score_move of
\* that move in a node reached by p finds it to be the countermove, as long
\* as no other cutoff has been recorded since
CountermoveRecorded ==
  /\ (call.fn = "cutoff" /\ ~is_capture(call.cut.mv)) =>
       call.countermoves[from_sq(call.cut.p)][to_sq(call.cut.p)] = call.cut.mv
  /\ (call.fn = "score_move" /\ ~is_capture(call.scored.mv)
        /\ call.scored.p = call.cut.p /\ call.scored.mv = call.cut.mv) =>
       call.scored.countermove

\* ---------------------------------------------------------------------------
\* ordering.rs: score_move

TT_MOVE_SCORE == 10000000
GOOD_CAPTURE_BASE == 8000000
KILLER_SCORE_1 == 6000000
KILLER_SCORE_2 == 5000000
COUNTER_MOVE_SCORE == 4000000
BAD_CAPTURE_BASE == -2000000
\* MVV_LVA[victim][attacker]
MVV_LVA ==
  <<<<105, 104, 103, 102, 101, 100>>,
    <<205, 204, 203, 202, 201, 200>>,
    <<305, 304, 303, 302, 301, 300>>,
    <<405, 404, 403, 402, 401, 400>>,
    <<505, 504, 503, 502, 501, 500>>,
    <<605, 604, 603, 602, 601, 600>>>>
see_piece_value(pt) == SEE_VALUES[pt + 1]

\* SearchHeuristics::is_killer: 0, 1 or None
is_killer(killers, mv, ply) ==
  IF ply >= MAX_PLY THEN None
  ELSE IF killers[ply][1] = mv THEN 0
  ELSE IF killers[ply][2] = mv THEN 1
  ELSE None
\* SearchHeuristics::get_history
get_history(history, color, mv) == history[color][from_sq(mv)][to_sq(mv)]

\* score_move: every capture is given the good capture base
CaptureScoreWithoutSee(good, mvv_lva) == GOOD_CAPTURE_BASE + mvv_lva
\* score_move: the score of a capture, good when see_ge(mv, 0)
CaptureScore(good, mvv_lva) ==
  IF good THEN GOOD_CAPTURE_BASE + mvv_lva ELSE BAD_CAPTURE_BASE + mvv_lva

\* score_move(pos, mv, tt_move, heuristics, ply)
score_move(p, mv, tt_move, heuristics, ply) ==
  IF mv = tt_move THEN TT_MOVE_SCORE
  ELSE IF is_capture(mv)
  THEN LET victim == IF is_en_passant(mv) THEN Pawn
                     ELSE IF piece_at(p, to_sq(mv)) = NoPiece THEN None
                     ELSE Piece_type(piece_at(p, to_sq(mv)))
           attacker == IF piece_at(p, from_sq(mv)) = NoPiece THEN None
                       ELSE Piece_type(piece_at(p, from_sq(mv)))
       IN IF victim = None \/ attacker = None THEN 0
          ELSE CaptureScore(see_ge(p, mv, 0), MVV_LVA[victim + 1][attacker + 1])
  ELSE IF is_promotion(mv)
  THEN GOOD_CAPTURE_BASE + see_piece_value(promotion_piece(mv))
  ELSE IF is_killer(heuristics.killers, mv, ply) # None
  THEN (IF is_killer(heuristics.killers, mv, ply) = 0 THEN KILLER_SCORE_1
        ELSE KILLER_SCORE_2)
  ELSE IF is_countermove(heuristics.countermoves, heuristics.prev_move, mv)
  THEN COUNTER_MOVE_SCORE
  ELSE get_history(heuristics.history, p.side_to_move, mv)

\* White to move with the quiet promotions b7b8, the capture promotions
\* b7xa8, the good capture Qd1xh5 and the bad capture Qd1xd5
ORDER_FEN ==
  <<"r", "5", "k", "1", "/", "1", "P", "6", "/", "4", "p", "3", "/", "3", "p", "3",
    "n", "/", "8", "/", "8", "/", "8", "/", "3", "Q", "2", "K", "1", " ", "w", " ",
    "-", " ", "-", " ", "0", " ", "1">>
\* Black to move: the same pieces with the colours and the ranks swapped
ORDER_FEN_BLACK ==
  <<"3", "q", "2", "k", "1", "/", "8", "/", "8", "/", "8", "/", "3", "P", "3", "N",
    "/", "4", "P", "3", "/", "1", "p", "6", "/", "R", "5", "K", "1", " ", "b", " ",
    "-", " ", "-", " ", "0", " ", "1">>
OrderFens == {ORDER_FEN, ORDER_FEN_BLACK}
HISTORY_MAX == 16384
OrderHistories == {-HISTORY_MAX, 0, 7, HISTORY_MAX}
OrderPlies == {0, MAX_PLY - 1}

\* the quiet moves of p that are no promotions, in the order of generation
QuietMoves(p) ==
  SelectSeq(generate_legal_moves(p), LAMBDA mv : ~is_capture(mv) /\ ~is_promotion(mv))

\* score_moves(&mut moves, pos, tt_move, &heuristics, ply) at a node: the TT
\* move is no move or a move of the node, the killers and the countermove
\* are quiet moves, of the node or not, and the history counters are within
\* their bounds
InitOrder ==
  /\ \E fen \in OrderFens : pos = from_fen(fen, FALSE).pos
  /\ panicked = FALSE
  /\ overflow_checks = FALSE
  /\ book = 0
  /\ free = 0
  /\ nulls = 0
  /\ pf = PerftIdle
  /\ cmd = CmdNone
  /\ SearchIdle
  /\ tt = TranspositionTable_new(NumEntries)
  /\ ttop = NoOp
  /\ ttobs = NoTTObs
  /\ \E quiet \in {QuietMoves(pos)} : \E moves \in {generate_legal_moves(pos)} :
     \E tt_move \in {Move_NULL, moves[1], quiet[1], moves[Len(moves)]} :
     \E killer1 \in {Move_NULL, quiet[1], quiet[2]} :
     \E killer2 \in {Move_NULL, quiet[2], quiet[3]} :
     \E counter \in {Move_NULL, quiet[3], quiet[4]} :
     \E h \in OrderHistories : \E ply \in OrderPlies :
       call = [fn |-> "score_moves", tt_move |-> tt_move, ply |-> ply,
               heuristics |->
                 [killers |-> [SearchHeuristics_new_killers EXCEPT
                                 ![ply] = <<killer1, killer2>>],
                  history |-> [c \in {White, Black} |->
                                 [from \in 0..63 |-> [to \in 0..63 |-> h]]],
                  countermoves |-> update_countermove(NoCountermoves,
                                                      Move_quiet(1, 2), counter),
                  prev_move |-> IF counter = Move_NULL THEN Move_NULL
                                ELSE Move_quiet(1, 2)],
               scores |-> <<>>]

\* for i in 0..list.len() { list.set_score(i, score_move(...)) }
ScoreMoves ==
  /\ call.fn = "score_moves"
  /\ \E moves \in {generate_legal_moves(pos)} :
       call' = [call EXCEPT
                  !.fn = "scored",
                  !.scores = [i \in 1..Len(moves) |->
                                [mv |-> moves[i],
                                 score |-> score_move(pos, moves[i], call.tt_move,
                                                      call.heuristics, call.ply)]]]
  /\ UNCHANGED <<ttVars, posVars, gameVars, pf, cmd, searchVars>>

NextOrder == ScoreMoves
SpecOrder == InitOrder /\ [][NextOrder]_vars

\* the category of a move of the node, 1 the highest: TT move, good capture,
\* non-capture promotion, killer 1, killer 2, countermove, quiet move scored
\* by its history, bad capture
OrderCategory(mv) ==
  LET h == call.heuristics IN
  IF mv = call.tt_move THEN 1
  ELSE IF is_capture(mv) THEN (IF see_ge(pos, mv, 0) THEN 2 ELSE 8)
  ELSE IF is_promotion(mv) THEN 3
  ELSE IF call.ply < MAX_PLY /\ h.killers[call.ply][1] = mv THEN 4
  ELSE IF call.ply < MAX_PLY /\ h.killers[call.ply][2] = mv THEN 5
  ELSE IF h.prev_move # Move_NULL
          /\ h.countermoves[from_sq(h.prev_move)][to_sq(h.prev_move)] = mv THEN 6
  ELSE 7
\* good captures and non-capture promotions share the good capture base
OrderRung(mv) == IF OrderCategory(mv) = 3 THEN 2 ELSE OrderCategory(mv)

\* C33 as stated: of two moves of a node, the one in the higher category has
\* the strictly greater ordering score
ScoringLadderStrict ==
  call.fn = "scored" =>
    \A i, j \in DOMAIN call.scores :
      OrderCategory(call.scores[i].mv) < OrderCategory(call.scores[j].mv) =>
        call.scores[i].score > call.scores[j].score

\* C33 amended: the same with the good captures and the non-capture
\* promotions on one rung, whose scores GOOD_CAPTURE_BASE + 100 .. + 900
\* interleave
ScoringLadder ==
  call.fn = "scored" =>
    /\ \A i, j \in DOMAIN call.scores :
         OrderRung(call.scores[i].mv) < OrderRung(call.scores[j].mv) =>
           call.scores[i].score > call.scores[j].score
    /\ \A i \in DOMAIN call.scores :
         OrderRung(call.scores[i].mv) = 2 =>
           /\ call.scores[i].score >= GOOD_CAPTURE_BASE + 100
           /\ call.scores[i].score <= GOOD_CAPTURE_BASE + 900

\* the scored node has a move on every rung but the TT move's, and a
\* promotion scored above a good capture
LadderFullyOccupied ==
  /\ call.fn = "scored"
  /\ \A c \in 2..8 : \E i \in DOMAIN call.scores : OrderCategory(call.scores[i].mv) = c
  /\ \E i, j \in DOMAIN call.scores :
       /\ OrderCategory(call.scores[i].mv) = 3
       /\ OrderCategory(call.scores[j].mv) = 2
       /\ call.scores[i].score > call.scores[j].score

\* ---------------------------------------------------------------------------
\* ordering.rs: update_history, on the counter history[color][from][to] of
\* the move

\* update_history without the gravity term
update_history_without_gravity(history, mv, depth, is_good) ==
  IF is_capture(mv) \/ is_promotion(mv) THEN history
  ELSE history + (IF is_good THEN depth * depth ELSE -(depth * depth))
\* SearchHeuristics::update_history
update_history(history, mv, depth, is_good) ==
  IF is_capture(mv) \/ is_promotion(mv) THEN history
  ELSE LET bonus == IF is_good THEN depth * depth ELSE -(depth * depth)
       IN history + (bonus - TruncDiv(history * Max(bonus, -bonus), HISTORY_MAX))

\* e2e4, e4xd5 and e7e8=Q
HistoryMoves ==
  {Move_quiet(12, 28), Move_capture(28, 35), Move_new(52, 60, FLAG_PROMO_QUEEN)}

\* SearchHeuristics::new(): the counter is 0
InitHistory ==
  /\ pos = Position_new
  /\ panicked = FALSE
  /\ overflow_checks = FALSE
  /\ book = 0
  /\ free = 0
  /\ nulls = 0
  /\ pf = PerftIdle
  /\ cmd = CmdNone
  /\ SearchIdle
  /\ tt = TranspositionTable_new(NumEntries)
  /\ ttop = NoOp
  /\ ttobs = NoTTObs
  /\ call = [fn |-> "new", history |-> 0]

\* heuristics.update_history(color, mv, depth, is_good)
UpdateHistory ==
  /\ call.fn \in {"new", "update_history"}
  /\ \E mv \in HistoryMoves :
     \E depth \in IF is_tactical(mv) THEN {1, MAX_PLY} ELSE 1..MAX_PLY :
     \E is_good \in BOOLEAN :
       call' = [fn |-> "update_history",
                history |-> update_history(call.history, mv, depth, is_good)]
  /\ UNCHANGED <<ttVars, posVars, gameVars, pf, cmd, searchVars>>

NextHistory == UpdateHistory
SpecHistory == InitHistory /\ [][NextHistory]_vars

\* C34: after any sequence of update_history calls with depth in 1..MAX_PLY
\* the counter is within -16384..16384, below the countermove and killer
\* scores and above every bad capture score
HistoryBounded ==
  call.fn \in {"new", "update_history"} =>
    /\ -HISTORY_MAX <= call.history
    /\ call.history <= HISTORY_MAX
    /\ call.history < COUNTER_MOVE_SCORE
    /\ call.history < KILLER_SCORE_2
    /\ call.history > BAD_CAPTURE_BASE + MVV_LVA[6][1]

\* updates have driven the counter to its upper bound
HistorySaturated ==
  call.fn = "update_history" /\ call.history = HISTORY_MAX

\* ---------------------------------------------------------------------------
\* magic.rs: the relevant-blocker mask of a bishop

\* BISHOP_MAGICS[sq].mask for one square
InitMask ==
  /\ pos = Position_new
  /\ panicked = FALSE
  /\ overflow_checks = FALSE
  /\ book = 0
  /\ free = 0
  /\ nulls = 0
  /\ pf = PerftIdle
  /\ cmd = CmdNone
  /\ SearchIdle
  /\ tt = TranspositionTable_new(NumEntries)
  /\ ttop = NoOp
  /\ ttobs = NoTTObs
  /\ \E sq \in Squares :
       call = [fn |-> "init_bishop_magics", sq |-> sq, mask |-> EMPTY,
               num_occupancies |-> 0]

\* magics[sq].mask = bishop_mask(sq), and the number of blocker subsets
\* init_bishop_attacks enumerates for the square
BishopMask ==
  /\ call.fn = "init_bishop_magics"
  /\ call' = [call EXCEPT !.fn = "bishop_mask",
                          !.mask = BISHOP_MAGICS[call.sq].mask,
                          !.num_occupancies = 2 ^ Cardinality(BISHOP_MAGICS[call.sq].mask)]
  /\ UNCHANGED <<ttVars, posVars, gameVars, pf, cmd, searchVars>>

NextMask == BishopMask
SpecMask == InitMask /\ [][NextMask]_vars

\* the squares strictly inside the board on the diagonals of sq, sq excluded
InteriorDiagonals(sq) ==
  {t \in Squares :
     /\ t # sq
     /\ file(t) \in 1..6
     /\ rank(t) \in 1..6
     /\ \/ file(t) - file(sq) = rank(t) - rank(sq)
        \/ file(t) - file(sq) = rank(sq) - rank(t)}

\* C35: the bishop mask of a square is the set of the interior squares of
\* its diagonals, it has BISHOP_BITS[sq] squares, and the blocker subsets
\* enumerated for the square are as many as the slots reserved for it
BishopMaskIsInterior ==
  call.fn = "bishop_mask" =>
    /\ call.mask = InteriorDiagonals(call.sq)
    /\ Cardinality(call.mask) = BISHOP_BITS[call.sq + 1]
    /\ call.num_occupancies <= 2 ^ BISHOP_BITS[call.sq + 1]

\* ---------------------------------------------------------------------------
\* search.rs and qsearch.rs: the depth of the recursion.  One path of calls
\* from the root call of negamax down to a call that returns.

MAX_QSEARCH_DEPTH == 10
MaxRootDepth == 255
RootDepths == {1, 2, 5, MAX_PLY, MaxRootDepth}
LmrMovesSearched == {4, 9, 63}

\* negamax: the check extension at every ply
CheckExtensionAtEveryPly(depth, ply, in_check) ==
  IF in_check THEN depth + 1 ELSE depth
\* negamax: the check extension
CheckExtension(depth, ply, in_check) ==
  IF in_check /\ ply < MAX_PLY \div 2 THEN depth + 1 ELSE depth

\* the recursive calls negamax makes at a node of depth `depth` after the
\* extension, each with the depth it passes and whether computing it panics:
\* depth - 1, depth - 1 - reduction (the subtraction wraps where the
\* reduction has wrapped), and the null move's depth - 1 - r
ChildCalls(depth, in_check) ==
  {[depth |-> depth - 1, panics |-> FALSE]}
  \cup {[depth |-> IF LmrReduction(depth, ms, is_pv) < 0
                   THEN (depth - 1) + LmrReduction(depth, ms, is_pv)
                   ELSE depth - 1 - LmrReduction(depth, ms, is_pv),
         panics |-> LmrPanics(depth, ms, is_pv)] :
          ms \in {m \in LmrMovesSearched :
                   LmrApplies(m, depth, FALSE, in_check, FALSE)},
          is_pv \in BOOLEAN}
  \cup (IF ~in_check /\ depth >= 3
        THEN {[depth |-> depth - 1 - (3 + depth \div 4), panics |-> FALSE]}
        ELSE {})

InitDepth ==
  /\ pos = Position_new
  /\ panicked = FALSE
  /\ overflow_checks \in BOOLEAN
  /\ book = 0
  /\ free = 0
  /\ nulls = 0
  /\ pf = PerftIdle
  /\ cmd = CmdNone
  /\ SearchIdle
  /\ tt = TranspositionTable_new(NumEntries)
  /\ ttop = NoOp
  /\ ttobs = NoTTObs
  /\ \E depth \in RootDepths :
       call = [fn |-> "negamax", depth |-> depth, ply |-> 0, qs_ply |-> 0,
               extended |-> FALSE]

\* negamax goes past the ply limit and the depth test, extends the depth in
\* check, and calls itself for the null move or for a move of its loop
NegamaxRecurses ==
  /\ call.fn = "negamax"
  /\ ~panicked
  /\ call.ply < MAX_PLY
  /\ call.depth > 0
  /\ \E in_check \in BOOLEAN :
     \E depth \in {CheckExtension(call.depth, call.ply, in_check)} :
     \E child \in ChildCalls(depth, in_check) :
       IF overflow_checks /\ child.panics
       THEN /\ panicked' = TRUE
            /\ call' = [call EXCEPT !.fn = "returned"]
       ELSE /\ panicked' = FALSE
            /\ call' = [fn |-> "negamax", depth |-> child.depth,
                        ply |-> call.ply + 1, qs_ply |-> 0,
                        extended |-> depth # call.depth]
  /\ UNCHANGED <<pos, overflow_checks, book, free, nulls, pf, cmd, script, stdin,
                 stdout, STOP_FLAG, now, search, node, obs, ttVars>>

\* if depth <= 0 { return self.qsearch(alpha, beta, 0, info, tt); }
NegamaxCallsQsearch ==
  /\ call.fn = "negamax"
  /\ ~panicked
  /\ call.ply < MAX_PLY
  /\ call.depth <= 0
  /\ call' = [call EXCEPT !.fn = "qsearch", !.qs_ply = 0, !.extended = FALSE]
  /\ UNCHANGED <<ttVars, posVars, gameVars, pf, cmd, searchVars>>

\* qsearch below the depth limit makes a capture and calls itself
QsearchRecurses ==
  /\ call.fn = "qsearch"
  /\ call.qs_ply < MAX_QSEARCH_DEPTH
  /\ call' = [call EXCEPT !.qs_ply = @ + 1]
  /\ UNCHANGED <<ttVars, posVars, gameVars, pf, cmd, searchVars>>

\* the call returns: a stop, a cutoff, the ply limit, the stand pat score,
\* or the end of its moves
DepthReturn ==
  /\ call.fn \in {"negamax", "qsearch"}
  /\ call' = [call EXCEPT !.fn = "returned"]
  /\ UNCHANGED <<ttVars, posVars, gameVars, pf, cmd, searchVars>>

NextDepth == NegamaxRecurses \/ NegamaxCallsQsearch \/ QsearchRecurses \/ DepthReturn
SpecDepth == InitDepth /\ [][NextDepth]_vars

\* the calls above the call the search is in, and one more once it has
\* returned
DepthMeasure ==
  call.ply + call.qs_ply + (IF call.fn = "qsearch" THEN 1 ELSE 0)
    + (IF call.fn = "returned" THEN MAX_PLY + MAX_QSEARCH_DEPTH + 2 ELSE 0)

\* C36: a recursive call of negamax has its caller's ply plus 1 and is made
\* only below the ply limit, the check extension is applied only below ply
\* MAX_PLY / 2, qsearch is never entered beyond qs_ply = MAX_QSEARCH_DEPTH,
\* and every step goes deeper or returns, so no path of calls is longer than
\* MAX_PLY + MAX_QSEARCH_DEPTH + 1
RecursionBounded ==
  [][/\ (call.fn = "negamax" /\ call'.fn = "negamax") =>
          /\ call'.ply = call.ply + 1
          /\ call.ply < MAX_PLY
          /\ call'.extended => call.ply < MAX_PLY \div 2
     /\ call'.fn = "negamax" => call'.ply <= MAX_PLY
     /\ call'.fn = "qsearch" => call'.qs_ply <= MAX_QSEARCH_DEPTH
     /\ DepthMeasure' > DepthMeasure
     /\ call'.fn # "returned" => DepthMeasure' <= MAX_PLY + MAX_QSEARCH_DEPTH + 1]_vars

\* negamax has been called at the ply limit, below an extended node
PlyLimitReached ==
  call.fn = "negamax" /\ call.ply = MAX_PLY /\ call.depth > 0

\* ---------------------------------------------------------------------------
\* search.rs and qsearch.rs: the search once SearchInfo.stopped is set.  A
\* call of negamax that returns from its loop over the moves, at a beta
\* cutoff or after the last move, has updated the heuristics (cutoff) and
\* stored its result in the table; the returns before the loop and the
\* `return 0` of a stopped search write nothing.

MaxStopDepth == 2

\* pos.search(&mut tt, None, Some(depth), Some(&STOP_FLAG))
InitStop ==
  /\ \E fen \in PvFens : pos = from_fen(fen, FALSE).pos
  /\ panicked = FALSE
  /\ overflow_checks = FALSE
  /\ book = 0
  /\ free = 0
  /\ nulls = 0
  /\ pf = PerftIdle
  /\ cmd = CmdNone
  /\ script = <<>>
  /\ stdin = <<>>
  /\ stdout = <<>>
  /\ STOP_FLAG = FALSE
  /\ now = 0
  /\ \E depth_limit \in 1..MaxStopDepth : search = SearchStart(None, depth_limit, 0)
  /\ node = NoNode
  /\ obs = NoObs
  /\ tt = TranspositionTable_new(NumEntries)
  /\ ttop = NoOp
  /\ ttobs = NoTTObs
  /\ call = [fn |-> "search", stack |-> <<>>, ret |-> NoRet, stale |-> FALSE]

\* the call at the top is at a polling point, in the head of negamax or in
\* the qsearch it drops into, and should_stop() is true there: the stop flag
\* is set or the search is stopped already.  The call returns 0
PollStops ==
  /\ call.fn = "search"
  /\ call.stack # <<>>
  /\ Top.stage = "enter"
  /\ STOP_FLAG' = TRUE
  /\ search' = [search EXCEPT !.info = [@ EXCEPT !.stopped = TRUE]]
  /\ ReturnScore(0, Top.pv)
  /\ UNCHANGED <<posVars, gameVars, pf, cmd, ttVars, script, stdin, stdout, now, node,
                 obs>>

NextStop ==
  RootCall \/ NodeEnter \/ MovePick \/ MoveResume \/ RootReturn \/ SearchReturn
    \/ PollStops
SpecStop == InitStop /\ [][NextStop]_vars

\* C37: once stopped is true, a call of negamax returns only from before its
\* loop over the moves or with the 0 of a stopped search, never from a beta
\* cutoff or from the end of the loop, where the heuristics are updated and
\* the table is written
NoStoreAfterStop ==
  [][(/\ search.info.stopped
      /\ call.fn = "search"
      /\ call.stack # <<>>
      /\ Len(call'.stack) < Len(call.stack)) =>
       \/ Top.stage = "enter"
       \/ /\ Top.stage = "wait"
          /\ call'.ret.score = 0
          /\ call'.ret.pv = Top.pv]_vars

\* a call entered after the stop has gone past its head without a poll and
\* is in its loop over the moves
LoopEnteredAfterStop ==
  /\ call.fn = "search"
  /\ search.info.stopped
  /\ call.stack # <<>>
  /\ Top.stage = "pick"

(***************************************************************************)
(* make_move.rs, movegen.rs: the pieces behind a castling right            *)
(***************************************************************************)
\* the king's home square of a colour
KingHome(c) == IF c = White THEN E1 ELSE E8
\* the corner of the rook of a colour's kingside or queenside right
RookHome(c, is_kingside) ==
  IF c = White THEN (IF is_kingside THEN H1 ELSE A1)
  ELSE (IF is_kingside THEN H8 ELSE A8)
\* the right is present and its king and rook stand on their home squares
RightIsBacked(p, c, is_kingside) ==
  CastlingRights_contains(p.castling,
                          IF is_kingside THEN kingside(c) ELSE queenside(c))
    => /\ piece_at(p, KingHome(c)) = Piece_new(c, King)
       /\ piece_at(p, RookHome(c, is_kingside)) = Piece_new(c, Rook)

\* C38: in every position reached by legal moves, a castling right that is
\* present has that side's king on e1/e8 and a rook of that side on the
\* corner of the right; the castling move the generator offered that was
\* just made left the rook of the side that castled next to its king, so
\* the rook relocation did not act on a missing rook.
CastlingRightsAreBacked ==
  ~panicked =>
    /\ \A c \in Colors : \A is_kingside \in BOOLEAN : RightIsBacked(pos, c, is_kingside)
    /\ (call.fn = "make_move" /\ is_castle(call.mv)) =>
         /\ piece_at(pos, to_sq(call.mv)) = Piece_new(call.us, King)
         /\ piece_at(pos, IF flags(call.mv) = FLAG_KING_CASTLE
                          THEN to_sq(call.mv) - 1 ELSE to_sq(call.mv) + 1)
              = Piece_new(call.us, Rook)
         /\ piece_at(pos, RookHome(call.us, flags(call.mv) = FLAG_KING_CASTLE))
              # Piece_new(call.us, Rook)
\* a rook has captured the rook on a8: White lost the right of a1 and Black
\* the right of a8, and the two kingside rights are still there
RookTakesCornerRook ==
  /\ call.fn = "make_move"
  /\ call.mv = Move_new(A1, A8, FLAG_CAPTURE)
  /\ call.castling = CastlingRights_ALL
  /\ pos.castling = WHITE_KINGSIDE \cup BLACK_KINGSIDE
  /\ piece_at(pos, A8) = Piece_new(White, Rook)

(***************************************************************************)
(* tt.rs: the depth of an entry, as store records it and depth_ok reads it *)
(***************************************************************************)
\* the depths negamax asks depth_ok about: those it stores, and the depth of
\* a node in check at the root of the last iteration of an unlimited search
ProbeDepths == TTDepths \cup {MAX_PLY + 1}

\* C39: the slot a store has replaced records the depth passed to store, and
\* depth_ok(d) on it is true exactly when that depth is >= d, for the depths
\* the search passes, the root depth 128 of an unlimited search and the
\* check-extended 129 included.
DepthRecordedAsPassed ==
  ttop.name = "store" =>
    LET existing == ttop.existing
        slot == tt.table[TT_index(tt, ttop.hash)]
        replaced == \/ existing.key # ttop.hash[1]
                    \/ existing.age # ttop.age
                    \/ ttop.depth >= existing.depth
                    \/ ttop.bound = Bound_Exact
    IN replaced =>
         /\ slot.depth = ttop.depth
         /\ \A d \in ProbeDepths : depth_ok(slot, d) <=> (ttop.depth >= d)

\* ---------------------------------------------------------------------------
\* search.rs, search: the window of a root call of negamax

\* C40: every root call of negamax made by the iterative-deepening loop has
\* -INFINITY <= alpha < beta <= INFINITY, and the i16 arithmetic that
\* recomputes the window after a call (the midpoint (alpha + beta) / 2 of a
\* fail-low among it) stays within i16, for every previous-iteration score
\* below MATE_BOUND.
RootWindowWellFormed ==
  /\ ~panicked
  /\ search.pc = "call" =>
       /\ -INFINITY <= search.alpha
       /\ search.alpha < search.beta
       /\ search.beta <= INFINITY
  /\ call.fn = "negamax" =>
       /\ -INFINITY <= call.alpha
       /\ call.alpha < call.beta
       /\ call.beta <= INFINITY
       /\ call.score <= call.alpha =>
            /\ call.alpha + call.beta <= 32767
            /\ call.alpha + call.beta >= -32768

====
